---- MODULE Spec2Model ----
(***************************************************************************)
(* Model of the message-orchestration pipeline of the chat service        *)
(* (services/chat.service.ts): the retry wrapper withRetry, the knowledge  *)
(* search, the tool invoker executeToolCall and the orchestrator           *)
(* addMessage.  Strings are TLA+ strings handled character by character    *)
(* (Len, SubSeq, \o), so that substring tests and pattern matches are      *)
(* computed, not assumed.                                                   *)
(***************************************************************************)
EXTENDS Integers, Sequences, FiniteSets, TLC

\* JavaScript null / undefined where a string is expected
NULL == "<null>"

\* a nullable object: None is null, Some(x) is the object x
None == <<>>
Some(x) == <<x>>

-----------------------------------------------------------------------------
(* Bounds of the model                                                      *)

\* longest script of the operation handed to withRetry, and largest maxRetries
MaxAttempts == 3

\* most tool calls the first completion requests
MaxToolCalls == 2

\* most failures of the embedding provider and the vector backend in one turn
MaxFaults == 3

\* longest product list, and longest document list, handed to a product
\* function applied on its own
MaxProducts == 2
MaxDocs == 2

\* most requests served at the same time
MaxOrchestrations == 2

-----------------------------------------------------------------------------
(* String helpers (JavaScript String.prototype)                             *)

CharAt(s, k) == SubSeq(s, k, k)

UpperChars == "ABCDEFGHIJKLMNOPQRSTUVWXYZ"
LowerChars == "abcdefghijklmnopqrstuvwxyz"

\* one character, lower-cased (the /i flag of a pattern)
LowerChar(c) ==
  IF \E k \in 1..26 : CharAt(UpperChars, k) = c
  THEN CharAt(LowerChars, CHOOSE k \in 1..26 : CharAt(UpperChars, k) = c)
  ELSE c

\* \s of a JavaScript pattern, over the characters the model uses
IsSpace(c) == c \in {" ", "\n", "\t"}

\* the literal lit occurs in s at position k (1-based)
LitAt(s, k, lit) ==
  /\ k >= 1
  /\ k + Len(lit) - 1 <= Len(s)
  /\ SubSeq(s, k, k + Len(lit) - 1) = lit

\* the literal lit occurs in s at position k, ignoring case (lit is lower case)
LitAtCI(s, k, lit) ==
  /\ k >= 1
  /\ k + Len(lit) - 1 <= Len(s)
  /\ \A j \in 1..Len(lit) : LowerChar(CharAt(s, k + j - 1)) = CharAt(lit, j)

\* s.includes(lit): case-sensitive substring test
Includes(s, lit) == \E k \in 1..(Len(s) + 1) : LitAt(s, k, lit)

\* a character of \d
IsDigit(c) == c \in {"0", "1", "2", "3", "4", "5", "6", "7", "8", "9"}

\* the least element of a non-empty set of integers, and the greatest
Least(S) == CHOOSE x \in S : \A y \in S : x <= y
Greatest(S) == CHOOSE x \in S : \A y \in S : x >= y

\* first position >= k of s holding a character of stops (Len(s) + 1 if none)
RunEnd(s, k, stops) ==
  Least({j \in k..(Len(s) + 1) : j = Len(s) + 1 \/ CharAt(s, j) \in stops})

\* first position >= k of s holding a character outside keep (Len(s) + 1 if none)
RunEndOf(s, k, keep) ==
  Least({j \in k..(Len(s) + 1) : j = Len(s) + 1 \/ CharAt(s, j) \notin keep})

Spaces == {" ", "\n", "\t"}
Digits == {"0", "1", "2", "3", "4", "5", "6", "7", "8", "9"}

\* first position >= k of s that holds no white space (Len(s) + 1 if none)
SkipSpaces(s, k) == IF k > Len(s) THEN k ELSE RunEndOf(s, k, Spaces)

\* first position >= k of s that holds no digit (Len(s) + 1 if none)
SkipDigits(s, k) == IF k > Len(s) THEN k ELSE RunEndOf(s, k, Digits)

\* last position <= k of s that holds no white space (0 if none)
SkipSpacesBack(s, k) ==
  Greatest({j \in 0..k : j = 0 \/ ~IsSpace(CharAt(s, j))})

\* s.trim()
Trim(s) == SubSeq(s, SkipSpaces(s, 1), SkipSpacesBack(s, Len(s)))

\* JavaScript truthiness of a nullable string
Truthy(s) == s # NULL /\ s # ""

\* a || b on nullable strings
JsOr(a, b) == IF Truthy(a) THEN a ELSE b

-----------------------------------------------------------------------------
(* Values thrown and returned                                               *)

\* new Error(message)
Err(m) == [message |-> m]

\* the settled value of a promise: fulfilled with value, or rejected with error
Fulfilled(v) == [ok |-> TRUE, value |-> Some(v), error |-> None]
Rejected(e) == [ok |-> FALSE, value |-> None, error |-> Some(e)]
ValueOf(outcome) == outcome.value[1]
ErrorOf(outcome) == outcome.error[1]

-----------------------------------------------------------------------------
(* Products                                                                 *)

Product(id, n, d) == [productId |-> id, name |-> n, description |-> d]

\* `Product ${productId}`
PlaceholderName(id) == "Product " \o id

NoDescription == "No description available"

\* products.filter((p, index, self) => index === self.findIndex(same productId))
RECURSIVE DedupFromReversed(_, _)
DedupFromReversed(ps, k) ==
  IF k > Len(ps) THEN <<>>
  ELSE IF \E j \in 1..(k - 1) : ps[j].productId = ps[k].productId
       THEN DedupFromReversed(ps, k + 1)
       ELSE DedupFromReversed(ps, k + 1) \o <<ps[k]>>
RECURSIVE DedupFrom(_, _)
DedupFrom(ps, k) ==
  IF k > Len(ps) THEN <<>>
  ELSE IF \E j \in 1..(k - 1) : ps[j].productId = ps[k].productId
       THEN DedupFrom(ps, k + 1)
       ELSE <<ps[k]>> \o DedupFrom(ps, k + 1)

DedupByIdReversed(ps) == DedupFromReversed(ps, 1)
DedupById(ps) == DedupFrom(ps, 1)

-----------------------------------------------------------------------------
(* extractProductsFromAssistantMessage                                      *)

IsLetter(c) == \E k \in 1..26 : CharAt(LowerChars, k) = LowerChar(c)

\* /\d+\.\s*\*\*/ tried at position k: the position after the match, 0 if none
HeaderEnd(s, k) ==
  IF k >= 1 /\ k <= Len(s) /\ IsDigit(CharAt(s, k))
  THEN LET e == SkipDigits(s, k) IN
       IF e <= Len(s) /\ CharAt(s, e) = "." /\ LitAt(s, SkipSpaces(s, e + 1), "**")
       THEN SkipSpaces(s, e + 1) + 2
       ELSE 0
  ELSE 0

\* message.split(/(?=\d+\.\s*\*\*)/): cut before every header but one at the
\* start; SplitFrom gives the pieces that begin at start or later
RECURSIVE SplitFrom(_, _)
SplitFrom(s, start) ==
  LET cuts == {k \in (start + 1)..Len(s) : HeaderEnd(s, k) > 0}
  IN IF cuts = {} THEN <<SubSeq(s, start, Len(s))>>
     ELSE <<SubSeq(s, start, Least(cuts) - 1)>> \o SplitFrom(s, Least(cuts))

Sections(s) == SplitFrom(s, 1)

\* /\d+\.\s*\*\*([^*]+)\*\*/ tried at position k: the captured name, as a
\* one-element sequence, or <<>> when the pattern does not match there
NameAt(s, k) ==
  LET g == HeaderEnd(s, k)
      e == RunEnd(s, g, {"*"})
  IN IF g > 0 /\ e > g /\ LitAt(s, e, "**") THEN <<SubSeq(s, g, e - 1)>> ELSE <<>>

\* first match of a pattern tried at the positions of a string from left to
\* right; tries[k] is <<>> or the one-element sequence of the capture at k
FirstMatch(tries) ==
  LET hits == {k \in DOMAIN tries : tries[k] # <<>>}
  IN IF hits = {} THEN <<>> ELSE tries[Least(hits)]

\* label\*?\*?: tried at position k (label in lower case, matched with /i):
\* the position after the colon, 0 if no match
LabelEnd(s, k, label) ==
  LET a == k + Len(label) IN
  IF ~LitAtCI(s, k, label) THEN 0
  ELSE IF LitAt(s, a, ":") THEN a + 1
  ELSE IF LitAt(s, a, "*:") THEN a + 2
  ELSE IF LitAt(s, a, "**:") THEN a + 3
  ELSE 0

\* /Product ID\*?\*?:\s*(\d+)/i tried at position k
ProductIdAt(s, k) ==
  LET c == LabelEnd(s, k, "product id")
      d == SkipSpaces(s, c)
      e == SkipDigits(s, d)
  IN IF c > 0 /\ e > d THEN <<SubSeq(s, d, e - 1)>> ELSE <<>>

\* the largest g in lo..hi with a character other than "-" and newline, 0 if none
LastTextStart(s, lo, hi) ==
  Greatest({0} \cup {g \in lo..hi : g <= Len(s) /\ CharAt(s, g) \notin {"-", "\n"}})

\* (?:\n(?!.*:)[^-\n]+)* from position e (just after a run of [^-\n]):
\* the position after the last line taken
RECURSIVE MoreLines(_, _)
MoreLines(s, e) ==
  LET lineEnd == RunEnd(s, e + 1, {"\n"})
      runEnd == RunEnd(s, e + 1, {"-", "\n"})
  IN IF /\ e <= Len(s) /\ CharAt(s, e) = "\n"
        /\ ~Includes(SubSeq(s, e + 1, lineEnd - 1), ":")
        /\ runEnd > e + 1
     THEN MoreLines(s, runEnd)
     ELSE e

\* /Description\*?\*?:\s*([^-\n]+(?:\n(?!.*:)[^-\n]+)*)/i tried at position k
DescriptionAt(s, k) ==
  LET c == LabelEnd(s, k, "description")
      g == LastTextStart(s, c, SkipSpaces(s, c))
      e == MoreLines(s, RunEnd(s, g, {"-", "\n"}))
  IN IF c > 0 /\ g > 0 THEN <<SubSeq(s, g, e - 1)>> ELSE <<>>

\* the lookahead \n\s*-\s*\*\*[A-Z] (with /i) holds at position k
NextBulletAt(s, k) ==
  LET d == SkipSpaces(s, k + 1)
      b == SkipSpaces(s, d + 1)
  IN /\ LitAt(s, k, "\n")
     /\ LitAt(s, d, "-")
     /\ LitAt(s, b, "**")
     /\ b + 2 <= Len(s)
     /\ IsLetter(CharAt(s, b + 2))

\* first position >= k where the lookahead (?=\n\s*-\s*\*\*[A-Z]|$) holds
DetailsEnd(s, k) ==
  Least({j \in k..(Len(s) + 1) : j = Len(s) + 1 \/ NextBulletAt(s, j)})

\* /Details\*?\*?:\s*([\s\S]*?)(?=\n\s*-\s*\*\*[A-Z]|$)/i tried at position k
DetailsAt(s, k) ==
  LET c == LabelEnd(s, k, "details")
      g == SkipSpaces(s, c)
  IN IF c > 0 THEN <<SubSeq(s, g, DetailsEnd(s, g) - 1)>> ELSE <<>>

\* .replace(/\s*\n\s*/g, ' ').replace(/\s+/g, ' '): every run of white space
\* becomes one space; CollapseSpaces gives the result for positions lo..hi
RECURSIVE CollapseSpaces(_, _, _)
CollapseSpaces(s, lo, hi) ==
  IF lo > hi THEN ""
  ELSE IF lo = hi
  THEN IF ~IsSpace(CharAt(s, lo)) THEN CharAt(s, lo)
       ELSE IF lo > 1 /\ IsSpace(CharAt(s, lo - 1)) THEN "" ELSE " "
  ELSE CollapseSpaces(s, lo, (lo + hi) \div 2)
         \o CollapseSpaces(s, (lo + hi) \div 2 + 1, hi)

\* the capture of an optional match, '' when there is none
CaptureOr(m, default) == IF m = <<>> THEN default ELSE m[1]

\* the body of the loop over the sections: the products one section yields
SectionProducts(section) ==
  LET nameMatch == FirstMatch([k \in 1..Len(section) |-> NameAt(section, k)])
      name == IF nameMatch # <<>> THEN Trim(nameMatch[1]) ELSE ""
      idMatch == FirstMatch([k \in 1..Len(section) |-> ProductIdAt(section, k)])
      productId == idMatch[1]
      descMatch == FirstMatch([k \in 1..Len(section) |-> DescriptionAt(section, k)])
      detailsMatch == FirstMatch([k \in 1..Len(section) |-> DetailsAt(section, k)])
      description1 == IF descMatch # <<>> THEN Trim(descMatch[1]) ELSE ""
      description2 == IF detailsMatch # <<>> /\ description1 = ""
                      THEN Trim(detailsMatch[1]) ELSE description1
      description == Trim(CollapseSpaces(description2, 1, Len(description2)))
  IN IF Trim(section) = "" \/ idMatch = <<>> THEN <<>>
     ELSE <<Product(productId,
                    IF name # "" THEN name ELSE PlaceholderName(productId),
                    IF description # "" THEN description ELSE NoDescription)>>

\* products.push(...items) over a loop: the lists from position k on, joined
RECURSIVE Flatten(_, _)
Flatten(lists, k) ==
  IF k > Len(lists) THEN <<>> ELSE lists[k] \o Flatten(lists, k + 1)

extractProductsFromAssistantMessage(message) ==
  LET sections == Sections(message)
  IN Flatten([i \in 1..Len(sections) |-> SectionProducts(sections[i])], 1)

-----------------------------------------------------------------------------
(* extractProductsFromDocuments                                             *)

\* a metadata bag: the keys the extractor reads, NULL for a key that is absent
Metadata(pid, pid2, id, n, pn, t, d, dt) ==
  [productId |-> pid, product_id |-> pid2, id |-> id, name |-> n,
   product_name |-> pn, title |-> t, description |-> d, details |-> dt]

Document(id, c, m) == [id |-> id, content |-> c, metadata |-> m]

\* the product read from the metadata of one document, if any
MetadataProducts(doc) ==
  LET m == doc.metadata
      productId == JsOr(JsOr(m.productId, m.product_id), m.id)
      name == JsOr(JsOr(JsOr(m.name, m.product_name), m.title), "")
      description == JsOr(JsOr(m.description, m.details), "")
  IN IF Truthy(productId) /\ (name # "" \/ description # "")
     THEN <<Product(productId,
                    IF name # "" THEN name ELSE PlaceholderName(productId),
                    IF description # "" THEN description ELSE NoDescription)>>
     ELSE <<>>

\* label[:\s]*(\d+) with /i tried at position k: <<start of the digits,
\* position after them>>, or <<>> when the pattern does not match there
MarkerAt(s, k, label) ==
  LET a == k + Len(label)
      c == IF a > Len(s) THEN a ELSE RunEndOf(s, a, {":"} \cup Spaces)
      e == SkipDigits(s, c)
  IN IF LitAtCI(s, k, label) /\ e > c THEN <<c, e>> ELSE <<>>

\* beforeContent.split('\n').filter(l => l.trim()): the last line kept, ''
\* when none is
LastLine(before) ==
  LET q == SkipSpacesBack(before, Len(before))
      start == Greatest({0} \cup {j \in 1..q : CharAt(before, j) = "\n"}) + 1
  IN IF q = 0 THEN ""
     ELSE SubSeq(before, start, RunEnd(before, q, {"\n"}) - 1)

\* the characters of s at the positions of keep, in order
RECURSIVE Pick(_, _, _, _)
Pick(s, lo, hi, keep) ==
  IF lo > hi THEN ""
  ELSE IF lo = hi THEN IF lo \in keep THEN CharAt(s, lo) ELSE ""
  ELSE Pick(s, lo, (lo + hi) \div 2, keep)
         \o Pick(s, (lo + hi) \div 2 + 1, hi, keep)

\* .replace(/\*\*/g, ''): the stars of a run are removed in pairs from its
\* left end, the last star of a run of odd length stays
RemoveBold(s) ==
  Pick(s, 1, Len(s),
       {j \in 1..Len(s) :
          \/ CharAt(s, j) # "*"
          \/ LET a == Greatest({b \in 1..j : b = 1 \/ CharAt(s, b - 1) # "*"})
             IN (j - a) % 2 = 0 /\ ~LitAt(s, j + 1, "*")})

\* the name read from the last line before a marker: numbering, bold markers
\* and a leading bullet removed; dropped when it is long, holds a colon or
\* the word description
CleanName(lastLine) ==
  LET e == SkipDigits(lastLine, 1)
      unnumbered == IF e > 1 /\ LitAt(lastLine, e, ".")
                    THEN SubSeq(lastLine, SkipSpaces(lastLine, e + 1), Len(lastLine))
                    ELSE lastLine
      plain == RemoveBold(unnumbered)
      name == Trim(IF LitAt(plain, 1, "-")
                   THEN SubSeq(plain, SkipSpaces(plain, 2), Len(plain))
                   ELSE plain)
  IN IF \/ Len(name) > 100
        \/ Includes(name, ":")
        \/ \E k \in 1..Len(name) : LitAtCI(name, k, "description")
     THEN "" ELSE name

\* the lookahead (?=\n\n|\n\s*[-•]|\nProduct ID|$) holds at position j; the
\* lookahead of the next-paragraph pattern has no marker alternative
ParagraphEndsAt(a, j, withMarker) ==
  \/ j = Len(a) + 1
  \/ LitAt(a, j, "\n\n")
  \/ LitAt(a, j, "\n") /\ LitAt(a, SkipSpaces(a, j + 1), "-")
  \/ withMarker /\ LitAtCI(a, j, "\nproduct id")

\* afterContent.match(/^\s*[-•]?\s*(.+?)(?=\n\n|\n\s*[-•]|$)/): the capture
\* trimmed, '' without a match. The capture runs from its start p to the end
\* of the line of p, where the lookahead has to hold; the pattern prefers
\* the latest start it can reach.
NextParagraph(a) ==
  LET w == SkipSpaces(a, 1)
      starts == (1..w) \cup (IF LitAt(a, w, "-")
                             THEN (w + 1)..SkipSpaces(a, w + 1) ELSE {})
      valid == {p \in starts :
                  /\ p <= Len(a)
                  /\ CharAt(a, p) # "\n"
                  /\ ParagraphEndsAt(a, RunEnd(a, p, {"\n"}), FALSE)}
      p == Greatest(valid)
  IN IF valid = {} THEN "" ELSE Trim(SubSeq(a, p, RunEnd(a, p, {"\n"}) - 1))

\* the description found after a marker: the text after the first
\* Description label up to the end of its paragraph
\* (/Description[:\s]*([\s\S]*?)(?=\n\n|\n\s*[-•]|\nProduct ID|$)/i), or the
\* next paragraph when there is no label
DescriptionAfter(a) ==
  LET labels == {k \in 1..Len(a) : LitAtCI(a, k, "description")}
      k == Least(labels)
      g == IF k + 11 > Len(a) THEN k + 11
           ELSE RunEndOf(a, k + 11, {":"} \cup Spaces)
      j == Least({i \in g..(Len(a) + 1) : ParagraphEndsAt(a, i, TRUE)})
  IN IF labels = {} THEN NextParagraph(a) ELSE Trim(SubSeq(a, g, j - 1))

\* the clean-up of a description that is not empty: white space collapsed,
\* .substring(0, 300), .trim()
CleanDescription(d) ==
  LET collapsed == CollapseSpaces(d, 1, Len(d))
  IN IF d = "" THEN ""
     ELSE Trim(SubSeq(collapsed, 1, IF Len(collapsed) < 300 THEN Len(collapsed) ELSE 300))

\* the elements of a finite set of integers in increasing order
RECURSIVE Ascending(_)
Ascending(S) ==
  IF S = {} THEN <<>> ELSE <<Least(S)>> \o Ascending(S \ {Least(S)})

\* the record found for a marker upgrades the one extracted before for the
\* same identifier: a placeholder name and the sentinel description only
Upgraded(existingProduct, name, description) ==
  [existingProduct EXCEPT
     !.name = IF name # "" /\ @ = PlaceholderName(existingProduct.productId)
              THEN name ELSE @,
     !.description = IF description # "" /\ @ = NoDescription
                     THEN description ELSE @]

\* the loop over productIdMatches from its i-th match on: ks holds the
\* positions of the matches of /Product ID[:\s]*(\d+)/gi in content
RECURSIVE ScanMarkers(_, _, _, _)
ScanMarkers(docContent, ks, i, extractedProducts) ==
  IF i > Len(ks) THEN extractedProducts
  ELSE
    LET Found(productId, name, description, existing) ==
          IF existing # {}
          THEN [extractedProducts EXCEPT
                  ![Least(existing)] = Upgraded(@, name, description)]
          ELSE Append(extractedProducts,
                 Product(productId,
                         IF name # "" THEN name ELSE PlaceholderName(productId),
                         IF description # "" THEN description ELSE NoDescription))
        Identified(productId, name, description) ==
          Found(productId, name, description,
                {x \in 1..Len(extractedProducts) :
                   extractedProducts[x].productId = productId})
        Matched(m) ==
          Identified(SubSeq(docContent, m[1], m[2] - 1),
                     CleanName(LastLine(SubSeq(docContent, 1, ks[i] - 1))),
                     CleanDescription(
                       DescriptionAfter(SubSeq(docContent, m[2], Len(docContent)))))
    IN ScanMarkers(docContent, ks, i + 1,
                   Matched(MarkerAt(docContent, ks[i], "product id")))

\* (?:Product ID|ID)[:\s]*(\d+) with /i tried at position t
IdAt(s, t) ==
  LET Either(productId) ==
        IF productId # <<>> THEN productId ELSE MarkerAt(s, t, "id")
  IN Either(MarkerAt(s, t, "product id"))

\* /(?:^|\n)(?:\d+\.\s*|#+\s*)([^\n]+)[\s\S]*?(?:Product ID|ID)[:\s]*(\d+)/gmi
\* tried at position i: <<>>, or <<name captured, identifier, position after
\* the match>>. The heading begins at i when i begins a line, after the
\* newline at i otherwise; the name begins at h, the latest position the
\* heading prefix can end at with an identifier further on, and runs to the
\* end of its line, or up to the last identifier of that line when none
\* follows the line.
HeadingAt(s, i) ==
  LET u == IF CharAt(s, i) = "\n" THEN i + 1 ELSE i
      d == SkipDigits(s, u)
      prefixEnds ==
        IF u > Len(s) \/ (u = i /\ i > 1 /\ CharAt(s, i - 1) # "\n") THEN {}
        ELSE IF d > u /\ LitAt(s, d, ".") THEN (d + 1)..SkipSpaces(s, d + 1)
        ELSE IF CharAt(s, u) = "#"
        THEN (u + 1)..SkipSpaces(s, RunEndOf(s, u, {"#"}))
        ELSE {}
      Captured(h, n, id) ==
        <<SubSeq(s, h, n - 1), SubSeq(s, id[1], id[2] - 1), id[2]>>
      Ending(h, n, t) == Captured(h, n, IdAt(s, t))
      Last(h, t) == Ending(h, t, t)
      Choosing(h, ids, lineEnd, later) ==
        IF later # {} THEN Ending(h, lineEnd, Least(later))
        ELSE Last(h, Greatest({x \in ids : x > h}))
      Line(h, ids, lineEnd) ==
        Choosing(h, ids, lineEnd, {t \in ids : t >= lineEnd})
      Named(h, ids) == Line(h, ids, RunEnd(s, h, {"\n"}))
      Among(valid, ids) ==
        IF valid = {} THEN <<>> ELSE Named(Greatest(valid), ids)
      Heading(ids) ==
        Among({h \in prefixEnds :
                 /\ h <= Len(s)
                 /\ CharAt(s, h) # "\n"
                 /\ \E t \in ids : t > h},
              ids)
  IN Heading({t \in 1..Len(s) : IdAt(s, t) # <<>>})

\* block.match(/Description[:\s]*([\s\S]+?)(?=\n\n|$)/i) ? capture.trim()
\* : block.substring(0, 200)
BlockDescription(block) ==
  LET Capture(g) ==
        Trim(SubSeq(block, g,
                    Least({i \in (g + 1)..(Len(block) + 1) :
                             i = Len(block) + 1 \/ LitAt(block, i, "\n\n")}) - 1))
      Backtracked(greedy) ==
        Capture(IF greedy <= Len(block) THEN greedy ELSE Len(block))
      Labelled(labels) ==
        IF labels = {}
        THEN SubSeq(block, 1, IF Len(block) < 200 THEN Len(block) ELSE 200)
        ELSE Backtracked(RunEndOf(block, Least(labels) + 11, {":"} \cup Spaces))
  IN Labelled({k \in 1..Len(block) :
                 LitAtCI(block, k, "description") /\ k + 11 <= Len(block)})

\* the loop over structuredMatches: the products of the headings matched at
\* position from or later
RECURSIVE StructuredFrom(_, _)
StructuredFrom(docContent, from) ==
  LET Pushed(productId, name, description) ==
        Product(productId,
                IF name # "" THEN name ELSE PlaceholderName(productId),
                IF description # "" THEN description ELSE NoDescription)
      Block(blockStart, gaps) ==
        SubSeq(docContent, blockStart,
               IF gaps = {} THEN Len(docContent) ELSE Least(gaps) - 1)
      Matched(blockStart, match) ==
        <<Pushed(match[2], Trim(RemoveBold(match[1])),
                 BlockDescription(
                   Block(blockStart,
                         {j \in match[3]..Len(docContent) :
                            LitAt(docContent, j, "\n\n")})))>>
        \o StructuredFrom(docContent, match[3])
      First(blockStart) == Matched(blockStart, HeadingAt(docContent, blockStart))
      Matches(starts) == IF starts = {} THEN <<>> ELSE First(Least(starts))
  IN Matches({i \in from..Len(docContent) : HeadingAt(docContent, i) # <<>>})

\* Array.from(content.matchAll(/Product ID[:\s]*(\d+)/gi)): the positions of
\* the matches, in order
ProductIdMatches(docContent) ==
  Ascending({k \in 1..Len(docContent) : MarkerAt(docContent, k, "product id") # <<>>})

\* the content is scanned for markers when the metadata gave no record, or
\* one whose name is the placeholder
ScansContent(extractedProducts) ==
  \/ Len(extractedProducts) = 0
  \/ extractedProducts[1].name = PlaceholderName(extractedProducts[1].productId)

\* the body of the try of one document: whether it threw (content.matchAll
\* on a content that is null), and extractedProducts at that point or at the
\* end of the body
DocumentOutcome(doc) ==
  LET docContent == doc.content
      Structured(scanned) ==
        IF Len(scanned) = 0 THEN StructuredFrom(docContent, 1) ELSE scanned
      Body(fromMetadata, scans) ==
        IF docContent = NULL /\ scans
        THEN [threw |-> TRUE, extractedProducts |-> fromMetadata]
        ELSE [threw |-> FALSE,
              extractedProducts |->
                Structured(IF scans
                           THEN ScanMarkers(docContent, ProductIdMatches(docContent),
                                            1, fromMetadata)
                           ELSE fromMetadata)]
      Scanning(fromMetadata) == Body(fromMetadata, ScansContent(fromMetadata))
  IN Scanning(MetadataProducts(doc))

\* The documents the vector backend matches
NoMetadata == Metadata(NULL, NULL, NULL, NULL, NULL, NULL, NULL, NULL)

DocWidget ==
  Document("d1", "", [NoMetadata EXCEPT !.productId = "42", !.name = "Widget"])
DocWidgetBare ==
  Document("d2", "", [NoMetadata EXCEPT !.productId = "42"])
DocGadget ==
  Document("d3", "", [NoMetadata EXCEPT !.id = "7", !.details = "A handy gadget"])

\* a document whose metadata has an identifier and a description, no name
DocWidgetDescribed ==
  Document("d4", "", [NoMetadata EXCEPT !.product_id = "42",
                                        !.description = "A small tool"])

\* a document whose content is null: its metadata gives a record with a
\* placeholder name, so the content is scanned
DocNullContent ==
  Document("d5", NULL, [NoMetadata EXCEPT !.productId = "9",
                                          !.description = "Loose part"])

\* documents whose content has a marker for the identifier of the metadata:
\* one with a real name in the metadata and no description, one with a
\* description in the metadata and no name
DocWidgetText ==
  Document("d6", "Product ID: 42\nDescription: A small tool",
           [NoMetadata EXCEPT !.productId = "42", !.name = "Widget"])
DocNameInText ==
  Document("d7", "Widget\nProduct ID: 42\nDescription: A small\n  tool",
           [NoMetadata EXCEPT !.product_id = "42", !.description = "Loose part"])

\* a text of more than 300 characters
LongText ==
  LET ten == "0123456789 " IN
  LET hundred == ten \o ten \o ten \o ten \o ten \o ten \o ten \o ten \o ten \o ten
  IN hundred \o hundred \o hundred

\* documents without product metadata: one with a marker followed by a long
\* description, one with a heading and a bare identifier
DocLongText ==
  Document("d8", "Gizmo\nProduct ID: 7\nDescription: " \o LongText, NoMetadata)
DocHeading ==
  Document("d9", "## Gizmo\nFits  in\na pocket\nID: 7", NoMetadata)

\* a document whose metadata description spans two lines
DocTwoLines ==
  Document("d10", "", [NoMetadata EXCEPT !.id = "7",
                                         !.details = "A handy\n  gadget"])

MatchedDocuments ==
  {DocWidget, DocWidgetBare, DocWidgetDescribed, DocGadget, DocNullContent,
   DocWidgetText, DocNameInText, DocLongText, DocHeading, DocTwoLines}

\* the body of the try on each of these documents, computed once
OutcomesOfMatched == {<<doc, DocumentOutcome(doc)>> : doc \in MatchedDocuments}

OutcomeOf(doc) ==
  LET Known(outcomes) ==
        IF outcomes = {} THEN DocumentOutcome(doc)
        ELSE (CHOOSE known \in outcomes : TRUE)[2]
  IN Known({known \in OutcomesOfMatched : known[1] = doc})

\* products.push(...extractedProducts) ends the body of the try: a document
\* whose body threw adds nothing
DocumentProductsPartial(doc) == OutcomeOf(doc).extractedProducts
DocumentProducts(doc) ==
  LET Pushed(outcome) == IF outcome.threw THEN <<>> ELSE outcome.extractedProducts
  IN Pushed(OutcomeOf(doc))

\* the loop over docs, then the filter that keeps the first record of each
\* identifier
extractProductsFromDocuments(docs) ==
  DedupById(Flatten([i \in 1..Len(docs) |-> DocumentProducts(docs[i])], 1))

-----------------------------------------------------------------------------
(* Messages, tool calls and the payloads of tool responses                  *)

\* JSON.stringify(value) and a text that is not JSON
Json(v) == [valid |-> TRUE, value |-> v]
NotJson == [valid |-> FALSE, value |-> [query |-> NULL]]

ToolCall(id, n, a) == [id |-> id, name |-> n, arguments |-> a]

SearchTool == "search_knowledge_base"

\* a ChatMessageItem; fields that are not set are NULL (tool_calls: <<>>)
TextMessage(r, c) ==
  [role |-> r, content |-> c, tool_calls |-> <<>>, tool_call_id |-> NULL,
   name |-> NULL]
AssistantToolCallsNone(c, calls) ==
  [role |-> "assistant", content |-> c, tool_calls |-> <<>>,
   tool_call_id |-> NULL, name |-> NULL]
AssistantToolCalls(c, calls) ==
  [role |-> "assistant", content |-> c, tool_calls |-> calls,
   tool_call_id |-> NULL, name |-> NULL]
ToolMessage(id, n, payload) ==
  [role |-> "tool", content |-> payload, tool_calls |-> <<>>,
   tool_call_id |-> id, name |-> n]

\* the hint of the catch block of executeToolCall
ErrorHint(errorMessage) ==
  IF Includes(errorMessage, "fetch failed")
  THEN "Network connection issue. Check Supabase URL and internet connection."
  ELSE IF Includes(errorMessage, "does not exist")
  THEN "The match_documents function is missing. Please create it in your Supabase database."
  ELSE IF Includes(errorMessage, "Missing Supabase")
  THEN "Supabase environment variables are not configured."
  ELSE ""

\* the serialized payloads executeToolCall returns
NoDocumentsPayload ==
  Json([kind |-> "empty", message |-> "No documents found matching your query.",
        count |-> 0, results |-> <<>>, products |-> <<>>, hint |-> ""])
FoundPayload(docs, products) ==
  Json([kind |-> "found", message |-> "Found documents", count |-> Len(docs),
        results |-> docs, products |-> products, hint |-> ""])
SearchErrorPayload(error) ==
  Json([kind |-> "error", message |-> error.message, count |-> 0,
        results |-> <<>>, products |-> <<>>, hint |-> ErrorHint(error.message)])
UnknownToolPayload(n) ==
  Json([kind |-> "unknown", message |-> "Unknown tool: " \o n, count |-> 0,
        results |-> <<>>, products |-> <<>>, hint |-> ""])
\* the payload the loop of addMessage builds when executeToolCall throws
ExecuteFailedPayload(n, error) ==
  Json([kind |-> "failed", message |-> "Failed to execute " \o n, count |-> 0,
        results |-> <<>>, products |-> <<>>, hint |-> error.message])

\* what executeToolCall returns
ToolResult(payload, products) == [result |-> payload, products |-> products]

-----------------------------------------------------------------------------
(* The prompt                                                               *)

DefaultSystemPrompt == "You are a helpful assistant."

PromptSuffix ==
  "\n\nIMPORTANT: When users ask about products or information in the knowledge base:\n1. You MUST use the search_knowledge_base tool\n2. Present ALL products found with their Product IDs clearly\n3. Structure your response to list each product with:\n   - Product ID\n   - Product Name\n   - Description\n   - Any other relevant details\n\nThe search tool will return products in a structured format. Make sure to present all of them to the user."

\* agent?.systemPrompt ?? default, then the tool-usage instructions
EnhancedSystemPrompt(agentPrompt) ==
  (IF agentPrompt = NULL THEN DefaultSystemPrompt ELSE agentPrompt) \o PromptSuffix

Turn(sid, u, a) == [sessionId |-> sid, userMessage |-> u, assistantMessage |-> a]

\* the entries one stored turn contributes to the history
TurnEntriesAssistantFirst(turn) ==
  (IF Truthy(turn.assistantMessage)
   THEN <<TextMessage("assistant", turn.assistantMessage)>> ELSE <<>>)
    \o (IF Truthy(turn.userMessage)
        THEN <<TextMessage("user", turn.userMessage)>> ELSE <<>>)
TurnEntries(turn) ==
  (IF Truthy(turn.userMessage) THEN <<TextMessage("user", turn.userMessage)>> ELSE <<>>)
    \o (IF Truthy(turn.assistantMessage)
        THEN <<TextMessage("assistant", turn.assistantMessage)>> ELSE <<>>)

\* findMany({ where: { sessionId }, orderBy: createdAt asc })
TurnsOfSession(table, sid) == SelectSeq(table, LAMBDA t : t.sessionId = sid)

ChatHistory(table, sid) ==
  LET previousMessages == TurnsOfSession(table, sid)
  IN Flatten([i \in 1..Len(previousMessages) |-> TurnEntries(previousMessages[i])], 1)

\* /knowledge\s*base/i tried at position k
KnowledgeBaseAt(s, k) ==
  /\ LitAtCI(s, k, "knowledge")
  /\ LitAtCI(s, SkipSpaces(s, k + 9), "base")

\* /what\s+do\s+you\s+have/i tried at position k
WhatDoYouHaveAt(s, k) ==
  LET a == SkipSpaces(s, k + 4)
      b == SkipSpaces(s, a + 2)
      c == SkipSpaces(s, b + 3)
  IN /\ LitAtCI(s, k, "what") /\ a > k + 4
     /\ LitAtCI(s, a, "do") /\ b > a + 2
     /\ LitAtCI(s, b, "you") /\ c > b + 3
     /\ LitAtCI(s, c, "have")

\* /knowledge\s*base|product|information|what\s+do\s+you\s+have|inventory|catalog/i.test(content)
shouldUseSearchAlways(userText) == TRUE
shouldUseSearch(userText) ==
  \E k \in 1..Len(userText) :
    \/ KnowledgeBaseAt(userText, k)
    \/ LitAtCI(userText, k, "product")
    \/ LitAtCI(userText, k, "information")
    \/ WhatDoYouHaveAt(userText, k)
    \/ LitAtCI(userText, k, "inventory")
    \/ LitAtCI(userText, k, "catalog")

\* text || null
OrNull(text) == IF Truthy(text) THEN text ELSE NULL

-----------------------------------------------------------------------------
(* State                                                                    *)

VARIABLES
  \* withRetry
  script,        \* the operation fn: outcome of its k-th invocation
  maxRetries,    \* parameter maxRetries
  baseDelay,     \* parameter baseDelay
  retryI,        \* loop variable i
  lastError,     \* local lastError
  rpc,           \* position inside withRetry
  retryResult,   \* how withRetry settled (NULL while running)
  fnCalls,       \* number of invocations of fn made by this withRetry call
  delays,        \* the waits made by this withRetry call, in order
  \* the persistence store
  agentPrompt,   \* systemPrompt of the agent row, NULL when there is no row
  turns,         \* the ChatMessage table, in creation order
  \* one invocation of addMessage
  pc,            \* the call addMessage awaits, or how it ended
  path,          \* the branch taken after the first completion
  sessionId,     \* parameter sessionId
  content,       \* parameter content
  messages,      \* local messages
  requests,      \* the message lists sent to the completion provider, in order
  assistantContent, \* content of the first completion
  toolCalls,     \* tool_calls of the first completion
  tcIdx,         \* position of the loop over toolCalls
  allProducts,   \* local allProducts
  responses,     \* what the completion provider answered, in order
  createText,    \* the assistantMessage handed to createChatMessage
  products,      \* the product list to return
  response,      \* the value addMessage returned, None before
  thrown,        \* the error addMessage threw, None before
  \* executeToolCall and searchSupabaseEmbedding
  tpc,           \* position inside executeToolCall
  curCall,       \* the tool call being executed
  execResult,    \* how executeToolCall settled
  spc,           \* position inside searchSupabaseEmbedding
  \* calls made to the collaborators in this turn
  faults,        \* failures of the embedding provider and the backend so far
  nEmbedding,    \* embedding requests
  nRpc,          \* match_documents requests
  nToolExec,     \* invocations of executeToolCall
  nCreate,       \* chatMessage.create requests
  nSettledTools, \* invocations of executeToolCall that have settled
  \* the product functions applied on their own
  applied,       \* the function applied last ("idle": none is to be applied)
  given,         \* the arguments
  result,        \* the values returned so far, in order
  \* the controller createChat
  session,       \* the ChatSession row of the request: None when there is no
                 \* row, else Some(agentId) with NULL for no agent
  status,        \* the HTTP status createChat answered with, 0 before
  \* requests served at the same time
  orchestrations \* the locals of each invocation of addMessage in progress

retryVars == <<script, maxRetries, baseDelay, retryI, lastError, rpc,
               retryResult, fnCalls, delays>>

storeVars == <<agentPrompt, turns>>

turnVars == <<pc, path, sessionId, content, messages, requests,
              assistantContent, toolCalls, tcIdx, allProducts,
              responses, createText, products, response, thrown>>

toolVars == <<tpc, curCall, execResult, spc>>

countVars == <<faults, nEmbedding, nRpc, nToolExec, nCreate, nSettledTools>>

ctrlVars == <<session, status>>

orchVars == <<storeVars, turnVars, toolVars, countVars, ctrlVars>>

pureVars == <<applied, given, result>>

concVars == <<orchestrations>>

vars == <<retryVars, orchVars, pureVars, concVars>>

-----------------------------------------------------------------------------
(* withRetry                                                                *)

\* the configuration-error test of the catch block
IsNonRetryableOff(error) == FALSE
IsNonRetryable(error) ==
  \/ Includes(error.message, "does not exist")
  \/ Includes(error.message, "Missing Supabase")

\* for (...; i < maxRetries; ...)
LoopGuardOffByOne(k, m) == k < m - 1
LoopGuardOneMore(k, m) == k < m + 1
LoopGuard(k, m) == k < m

\* if (i < maxRetries - 1): a wait follows this failed attempt
WaitsAfterAlways(k, m) == TRUE
WaitsAfter(k, m) == k < m - 1

RECURSIVE Pow2(_)
Pow2(n) == IF n = 0 THEN 1 ELSE 2 * Pow2(n - 1)

\* baseDelay * Math.pow(2, i)
BackoffDelay(base, k) == base * Pow2(k)

\* throw lastError || new Error('Failed after retries')
ThrownAfterLoopUnnamed(e) == IF e = None THEN Err("") ELSE e[1]
ThrownAfterLoop(e) == IF e = None THEN Err("Failed after retries") ELSE e[1]

\* lastError = error as Error
CaughtErrorKeepFirst(prev, error) == IF prev = None THEN Some(error) ELSE prev
CaughtError(prev, error) == Some(error)

\* entry of withRetry(fn, m, base): lastError = null, i = 0
RetryEnter(m, base) ==
  /\ maxRetries' = m
  /\ baseDelay' = base
  /\ retryI' = 0
  /\ lastError' = None
  /\ rpc' = "loop"
  /\ retryResult' = None
  /\ fnCalls' = 0
  /\ delays' = <<>>

\* the loop test; when it passes fn is invoked, when it fails the loop is left
RetryLoop ==
  /\ rpc = "loop"
  /\ IF LoopGuard(retryI, maxRetries)
     THEN /\ rpc' = "call"
          /\ fnCalls' = fnCalls + 1
          /\ retryResult' = retryResult
     ELSE /\ rpc' = "threw"
          /\ retryResult' = Some(Rejected(ThrownAfterLoop(lastError)))
          /\ fnCalls' = fnCalls
  /\ UNCHANGED <<maxRetries, baseDelay, retryI, lastError, delays>>

\* the awaited fn() has settled with outcome: return, rethrow, wait or loop on
RetrySettle(outcome) ==
  /\ rpc = "call"
  /\ IF outcome.ok
     THEN /\ rpc' = "returned"
          /\ retryResult' = Some(Fulfilled(ValueOf(outcome)))
          /\ UNCHANGED <<retryI, lastError, delays>>
     ELSE /\ lastError' = CaughtError(lastError, ErrorOf(outcome))
          /\ IF IsNonRetryable(ErrorOf(outcome))
             THEN /\ rpc' = "threw"
                  /\ retryResult' = Some(Rejected(ErrorOf(outcome)))
                  /\ UNCHANGED <<retryI, delays>>
             ELSE IF WaitsAfter(retryI, maxRetries)
             THEN /\ rpc' = "wait"
                  /\ delays' = Append(delays, BackoffDelay(baseDelay, retryI))
                  /\ UNCHANGED <<retryI, retryResult>>
             ELSE /\ rpc' = "loop"
                  /\ retryI' = retryI + 1
                  /\ UNCHANGED <<retryResult, delays>>
  /\ UNCHANGED <<maxRetries, baseDelay, fnCalls>>

\* the backoff timer fires: i++ and back to the loop test
RetryWake ==
  /\ rpc = "wait"
  /\ rpc' = "loop"
  /\ retryI' = retryI + 1
  /\ UNCHANGED <<maxRetries, baseDelay, lastError, retryResult, fnCalls, delays>>

-----------------------------------------------------------------------------
(* withRetry on its own, applied to a scripted operation                    *)

\* messages of the errors the scripted operation throws
TransientMessages == {"fetch failed", "Supabase error: timeout",
                      "missing supabase key"}
PermanentMessages ==
  {"The match_documents function does not exist in Supabase. Please ensure it is created in your database.",
   "Missing Supabase environment variables"}

ScriptOutcomes ==
  {Fulfilled(v) : v \in {"docsA", "docsB"}}
    \cup {Rejected(Err(m)) : m \in TransientMessages \cup PermanentMessages}

Scripts == [1..MaxAttempts -> ScriptOutcomes]

\* no product function is applied on its own
PureIdle ==
  /\ applied = "idle"
  /\ given = <<>>
  /\ result = <<>>
  /\ orchestrations = <<>>

\* addMessage is not running
OrchIdle ==
  /\ agentPrompt = NULL
  /\ turns = <<>>
  /\ pc = "idle"
  /\ path = "none"
  /\ sessionId = "s1"
  /\ content = ""
  /\ messages = <<>>
  /\ requests = <<>>
  /\ assistantContent = NULL
  /\ toolCalls = <<>>
  /\ tcIdx = 0
  /\ allProducts = <<>>
  /\ responses = <<>>
  /\ createText = NULL
  /\ products = <<>>
  /\ response = None
  /\ thrown = None
  /\ tpc = "idle"
  /\ curCall = None
  /\ execResult = None
  /\ spc = "start"
  /\ faults = 0
  /\ nEmbedding = 0
  /\ nRpc = 0
  /\ nToolExec = 0
  /\ nCreate = 0
  /\ nSettledTools = 0
  /\ session = None
  /\ status = 0

InitRetry ==
  /\ script \in Scripts
  /\ maxRetries \in 0..MaxAttempts
  /\ baseDelay \in {500, 1000}
  /\ retryI = 0
  /\ lastError = None
  /\ rpc = "loop"
  /\ retryResult = None
  /\ fnCalls = 0
  /\ delays = <<>>
  /\ OrchIdle
  /\ PureIdle

\* the scripted operation settles its current invocation
ScriptedFnSettles ==
  /\ rpc = "call"
  /\ pc = "idle"
  /\ RetrySettle(script[fnCalls])
  /\ UNCHANGED <<script, orchVars>>
  /\ UNCHANGED <<ctrlVars, pureVars, concVars>>

RetryStep ==
  /\ pc = "idle"
  /\ (RetryLoop \/ RetryWake)
  /\ UNCHANGED <<script, orchVars>>
  /\ UNCHANGED <<ctrlVars, pureVars, concVars>>

NextRetry == RetryStep \/ ScriptedFnSettles

SpecRetry == InitRetry /\ [][NextRetry]_vars

-----------------------------------------------------------------------------
(* What the collaborators can answer                                        *)

\* the requests: a user text and the store it meets (the systemPrompt of the
\* agent, NULL when there is no agent row, and the ChatMessage table)
Requests ==
  { [content |-> "hello there", agentPrompt |-> NULL, turns |-> <<>>],
    [content |-> "Any INVENTORY left?",
     agentPrompt |-> "You are a shop assistant.",
     turns |-> <<Turn("s1", "hi", "Hello!"), Turn("s2", "anyone?", NULL),
                 Turn("s1", "still there?", NULL)>>] }

\* the ChatSession row of the request: none, one without an agent, one of
\* agent "a1"
Sessions == {None, Some(NULL), Some("a1")}

\* the vectors the embedding provider answers with
Embeddings == {<<1, 0, 2>>}

\* data of a successful match_documents call (None: data is null)
RpcData == {None, Some(<<DocWidget, DocWidgetBare>>), Some(<<DocGadget>>)}

\* error objects match_documents answers with: the function is not
\* provisioned, and a request that did not reach the backend
RpcErrors ==
  { [code |-> "P0001", message |-> "match_documents is not provisioned"],
    [code |-> "", message |-> "TypeError: fetch failed"] }

\* the calls a completion can request: two searches, a search with arguments
\* that are not JSON, a tool that is not declared (with arguments that are
\* JSON, and with arguments that are not), searches for a query of spaces
\* and for an empty query
CallCycle ==
  << [name |-> SearchTool, arguments |-> Json([query |-> "widgets"])],
     [name |-> SearchTool, arguments |-> Json([query |-> "gadgets"])],
     [name |-> SearchTool, arguments |-> NotJson],
     [name |-> "get_weather", arguments |-> Json([query |-> "widgets"])],
     [name |-> SearchTool, arguments |-> Json([query |-> "  "])],
     [name |-> "get_weather", arguments |-> NotJson],
     [name |-> SearchTool, arguments |-> Json([query |-> ""])] >>

CallId(k) == "call_" \o ToString(k)

\* the n calls that follow each other in the cycle from position first on
RequestedCalls(first, n) ==
  [k \in 1..n |->
     LET v == CallCycle[((first + k - 2) % Len(CallCycle)) + 1]
     IN ToolCall(CallId(k), v.name, v.arguments)]

CallLists ==
  {RequestedCalls(first, n) : first \in 1..Len(CallCycle), n \in 1..MaxToolCalls}

\* a settled completion request: it threw, or choices[0]?.message is absent,
\* or it is a message with a content and tool calls
CompletionThrew == [kind |-> "throw", content |-> NULL, tool_calls |-> <<>>]
NoChoice == [kind |-> "none", content |-> NULL, tool_calls |-> <<>>]
Completion(c, calls) == [kind |-> "message", content |-> c, tool_calls |-> calls]

ProviderError == Err("OpenAI request failed")

FirstTexts == {NULL, "", "Hello! How can I help?"}

FirstCompletions ==
  {CompletionThrew, NoChoice}
    \cup {Completion(c, <<>>) : c \in FirstTexts}
    \cup {Completion(NULL, calls) : calls \in CallLists}

FinalTexts ==
  {NULL, "", "Here is what I found.",
   "1. **Widget Pro**\n- Product ID: 42\n- Description: A small tool\n2. **Gizmo**\n- **Product ID**: 7\n- Details: Fits  in\na pocket",
   "1. **Widget**\n- Product ID: 42\n- Description: A small tool\n2. **Widget**\n- Product ID: 42"}

LaterCompletions ==
  {CompletionThrew, NoChoice}
    \cup {Completion(c, <<>>) : c \in FinalTexts}
    \cup {Completion("Here is what I found.", RequestedCalls(1, 1))}

-----------------------------------------------------------------------------
(* addMessage                                                               *)

Init ==
  /\ PureIdle
  /\ script = <<>>
  /\ maxRetries = 3
  /\ baseDelay = 1000
  /\ retryI = 0
  /\ lastError = None
  /\ rpc = "idle"
  /\ retryResult = None
  /\ fnCalls = 0
  /\ delays = <<>>
  /\ \E request \in Requests :
       /\ agentPrompt = request.agentPrompt
       /\ turns = request.turns
       /\ content = request.content
  /\ session \in Sessions
  /\ status = 0
  /\ pc = "request"
  /\ path = "none"
  /\ sessionId = "s1"
  /\ messages = <<>>
  /\ requests = <<>>
  /\ assistantContent = NULL
  /\ toolCalls = <<>>
  /\ tcIdx = 0
  /\ allProducts = <<>>
  /\ responses = <<>>
  /\ createText = NULL
  /\ products = <<>>
  /\ response = None
  /\ thrown = None
  /\ tpc = "idle"
  /\ curCall = None
  /\ execResult = None
  /\ spc = "start"
  /\ faults = 0
  /\ nEmbedding = 0
  /\ nRpc = 0
  /\ nToolExec = 0
  /\ nCreate = 0
  /\ nSettledTools = 0

\* openai.chat.completions.create({ messages }): one more request is sent
SendCompletionTwice(sent, msgs) == Append(Append(sent, msgs), msgs)
SendCompletion(sent, msgs) == Append(sent, msgs)

\* prisma.chatMessage.create({ data }): one row is added to the table
InsertTurnTwice(table, row) == Append(Append(table, row), row)
InsertTurnOverLast(table, row) ==
  IF Len(table) = 0 THEN <<row>> ELSE [table EXCEPT ![Len(table)] = row]
InsertTurn(table, row) == Append(table, row)

\* for (const toolCall of toolCalls): there is a call after the idx-th
LoopHasMoreButLast(idx, calls) == idx < Len(calls) - 1
LoopHasMore(idx, calls) == idx < Len(calls)

\* ensureSessionExists settles in createChat: without a ChatSession row the
\* answer is 404, without an agentId on the row it is 400, and addMessage is
\* called with the row's agentId otherwise
createChat ==
  /\ pc = "request"
  /\ IF ~Truthy(sessionId) \/ ~Truthy(content)
       THEN pc' = "rejected" /\ status' = 400
       ELSE IF session = None
         THEN pc' = "rejected" /\ status' = 404
         ELSE IF ~Truthy(session[1])
           THEN pc' = "rejected" /\ status' = 400
           ELSE pc' = "agent" /\ UNCHANGED status
  /\ UNCHANGED <<retryVars, storeVars, toolVars, countVars, path, sessionId,
                 content, messages, requests, assistantContent, toolCalls,
                 tcIdx, allProducts, responses, createText, products,
                 response, thrown, session>>
  /\ UNCHANGED <<pureVars, concVars>>

\* the catch of addMessage: log and rethrow
Abort(error) ==
  /\ pc' = "threw"
  /\ thrown' = Some(error)

\* prisma.agent.findUnique settles; then chatMessage.findMany is requested
AgentSettles ==
  /\ pc = "agent"
  /\ \/ /\ pc' = "history"
        /\ UNCHANGED thrown
     \/ Abort(Err("agent read failed"))
  /\ UNCHANGED <<retryVars, storeVars, toolVars, countVars, path, sessionId,
                 content, messages, requests, assistantContent, toolCalls,
                 tcIdx, allProducts, responses, createText, products,
                 response>>
  /\ UNCHANGED <<ctrlVars, pureVars, concVars>>

\* [system entry, history entries, user entry]
BuildMessages ==
  <<TextMessage("system", EnhancedSystemPrompt(agentPrompt))>>
    \o ChatHistory(turns, sessionId)
    \o <<TextMessage("user", content)>>

\* chatMessage.findMany settles; the prompt is built and the first completion
\* is requested
HistorySettles ==
  /\ pc = "history"
  /\ \/ /\ pc' = "first"
        /\ messages' = BuildMessages
        /\ requests' = SendCompletion(<<>>, BuildMessages)
        /\ UNCHANGED thrown
     \/ /\ Abort(Err("history read failed"))
        /\ UNCHANGED <<messages, requests>>
  /\ UNCHANGED <<retryVars, storeVars, toolVars, countVars, path, sessionId,
                 content, assistantContent, toolCalls, tcIdx, allProducts,
                 responses, createText, products, response>>
  /\ UNCHANGED <<ctrlVars, pureVars, concVars>>

\* the synthetic call of the forced search
ForcedCallFixedQuery(userText) ==
  ToolCall("forced-search", SearchTool, Json([query |-> "products"]))
ForcedCall(userText) ==
  ToolCall("forced-search", SearchTool, Json([query |-> userText]))

\* executeToolCall(call) is entered
EnterExecute(call) ==
  /\ curCall' = Some(call)
  /\ tpc' = "start"
  /\ execResult' = None
  /\ nToolExec' = nToolExec + 1
  /\ UNCHANGED spc

\* assistantProducts.find(ap => ap.productId === id): its position, 0 if none
RECURSIVE FindById(_, _, _)
FindById(ps, id, k) ==
  IF k > Len(ps) THEN 0
  ELSE IF ps[k].productId = id THEN k ELSE FindById(ps, id, k + 1)

\* one record of the field-level merge
EnrichPreferText(product, assistantProducts) ==
  LET found == FindById(assistantProducts, product.productId, 1)
      ap == assistantProducts[found]
  IN IF found = 0 THEN product
     ELSE Product(product.productId, ap.name, ap.description)
EnrichNameOnly(product, assistantProducts) ==
  LET found == FindById(assistantProducts, product.productId, 1)
      ap == assistantProducts[found]
  IN IF found = 0 THEN product
     ELSE Product(product.productId,
                  IF /\ product.name = PlaceholderName(product.productId)
                     /\ ap.name # PlaceholderName(product.productId)
                  THEN ap.name ELSE product.name,
                  product.description)
Enrich(product, assistantProducts) ==
  LET found == FindById(assistantProducts, product.productId, 1)
      ap == assistantProducts[found]
  IN IF found = 0 THEN product
     ELSE Product(product.productId,
                  IF /\ product.name = PlaceholderName(product.productId)
                     /\ ap.name # PlaceholderName(product.productId)
                  THEN ap.name ELSE product.name,
                  IF /\ product.description = NoDescription
                     /\ ap.description # NoDescription
                  THEN ap.description ELSE product.description)

\* extractProductsFromAssistantMessage on each text the provider answers
\* with, computed once
ExtractedFromFinalTexts ==
  {<<text, extractProductsFromAssistantMessage(text)>> : text \in FinalTexts}

\* extractProductsFromAssistantMessage(finalContent)
AssistantProductsOf(finalContent) ==
  LET Known(extracted) ==
        IF extracted = {} THEN extractProductsFromAssistantMessage(finalContent)
        ELSE (CHOOSE known \in extracted : TRUE)[2]
  IN Known({known \in ExtractedFromFinalTexts : known[1] = finalContent})

\* uniqueProducts after the fallback on the text of the second completion
AdoptFromTextAlways(uniqueProducts, finalContent) ==
  IF Truthy(finalContent) /\ Includes(finalContent, "Product ID")
  THEN uniqueProducts \o AssistantProductsOf(finalContent)
  ELSE uniqueProducts
AdoptFromText(uniqueProducts, finalContent) ==
  IF /\ Len(uniqueProducts) = 0
     /\ Truthy(finalContent)
     /\ Includes(finalContent, "Product ID")
  THEN AssistantProductsOf(finalContent)
  ELSE uniqueProducts

\* uniqueProducts.map(product => merged with the record of the text)
RECURSIVE EnrichFrom(_, _, _)
EnrichFrom(ps, assistantProducts, j) ==
  IF j > Len(ps) THEN <<>>
  ELSE <<Enrich(ps[j], assistantProducts)>> \o EnrichFrom(ps, assistantProducts, j + 1)

\* the product list after the second completion
Reconcile(uniqueProducts, finalContent) ==
  LET Enriched(adopted) ==
        IF Len(adopted) > 0 /\ Truthy(finalContent)
        THEN EnrichFrom(adopted, AssistantProductsOf(finalContent), 1)
        ELSE adopted
  IN Enriched(AdoptFromText(uniqueProducts, finalContent))

\* createChatMessage(sessionId, content, text) is requested
RequestCreateReconciled(text, ps) ==
  /\ pc' = "create"
  /\ createText' = text
  /\ products' = Reconcile(ps, text)
  /\ nCreate' = nCreate + 1
RequestCreate(text, ps) ==
  /\ pc' = "create"
  /\ createText' = text
  /\ products' = ps
  /\ nCreate' = nCreate + 1

\* the first completion settles: abort, answer directly, force a search, or
\* start the loop over the requested tool calls
FirstCompletionSettles ==
  /\ pc = "first"
  /\ \E r \in FirstCompletions :
       /\ responses' = Append(responses, r)
       /\ IF r.kind = "throw" THEN
            /\ Abort(ProviderError)
            /\ UNCHANGED <<toolVars, countVars, path, messages, assistantContent,
                           toolCalls, tcIdx, createText, products>>
          ELSE IF r.kind = "none" THEN
            /\ Abort(Err("No response from OpenAI"))
            /\ UNCHANGED <<toolVars, countVars, path, messages, assistantContent,
                           toolCalls, tcIdx, createText, products>>
          ELSE
            /\ assistantContent' = r.content
            /\ toolCalls' = r.tool_calls
            /\ UNCHANGED thrown
            /\ IF Len(r.tool_calls) = 0 THEN
                 IF shouldUseSearch(content) THEN
                   /\ path' = "forced"
                   /\ pc' = "tool"
                   /\ EnterExecute(ForcedCall(content))
                   /\ UNCHANGED <<messages, tcIdx, createText, products, faults,
                                  nEmbedding, nRpc, nCreate, nSettledTools>>
                 ELSE
                   /\ path' = "direct"
                   /\ RequestCreate(OrNull(r.content), <<>>)
                   /\ UNCHANGED <<toolVars, messages, tcIdx, faults, nEmbedding,
                                  nRpc, nToolExec, nSettledTools>>
               ELSE
                 /\ path' = "tools"
                 /\ pc' = "tool"
                 /\ messages' = Append(messages, AssistantToolCalls(r.content, r.tool_calls))
                 /\ tcIdx' = 1
                 /\ EnterExecute(r.tool_calls[1])
                 /\ UNCHANGED <<createText, products, faults, nEmbedding, nRpc,
                                nCreate, nSettledTools>>
  /\ UNCHANGED <<retryVars, storeVars, sessionId, content, requests,
                 allProducts, response>>
  /\ UNCHANGED <<ctrlVars, pureVars, concVars>>

-----------------------------------------------------------------------------
(* executeToolCall and searchSupabaseEmbedding                              *)

\* JSON.parse(arguments), then the switch on the tool name: a text that is
\* not JSON throws, the search enters withRetry with its defaults, any other
\* name returns the unknown-tool payload
ExecStart ==
  /\ pc = "tool"
  /\ tpc = "start"
  /\ LET call == curCall[1] IN
       IF ~call.arguments.valid THEN
         /\ tpc' = "settled"
         /\ execResult' = Some(Rejected(Err("Unexpected token in JSON")))
         /\ UNCHANGED retryVars
       ELSE IF call.name = SearchTool THEN
         /\ tpc' = "search"
         /\ RetryEnter(3, 1000)
         /\ UNCHANGED <<script, execResult>>
       ELSE
         /\ tpc' = "settled"
         /\ execResult' = Some(Fulfilled(ToolResult(UnknownToolPayload(call.name), <<>>)))
         /\ UNCHANGED retryVars
  /\ UNCHANGED <<storeVars, turnVars, countVars, curCall, spc>>
  /\ UNCHANGED <<ctrlVars, pureVars, concVars>>

\* the loop test and the backoff timer of withRetry, inside the search
SearchRetryStep ==
  /\ pc = "tool"
  /\ tpc = "search"
  /\ (RetryLoop \/ RetryWake)
  /\ UNCHANGED <<script, orchVars>>
  /\ UNCHANGED <<ctrlVars, pureVars, concVars>>

\* args.query of the call being executed
QueryOf(call) == call.arguments.value.query

\* !query || query.trim().length === 0
IsBlankQueryNoTrim(query) == ~Truthy(query)
IsBlankQuery(query) == ~Truthy(query) \/ Trim(query) = ""

\* searchSupabaseEmbedding is entered: a blank query returns [] at once,
\* any other query requests its embedding
SearchStart ==
  /\ pc = "tool"
  /\ tpc = "search"
  /\ rpc = "call"
  /\ spc = "start"
  /\ IF IsBlankQuery(QueryOf(curCall[1]))
     THEN /\ RetrySettle(Fulfilled(<<>>))
          /\ UNCHANGED <<spc, nEmbedding>>
     ELSE /\ spc' = "embedding"
          /\ nEmbedding' = nEmbedding + 1
          /\ UNCHANGED retryVars
  /\ UNCHANGED <<script, storeVars, turnVars, tpc, curCall, execResult, faults,
                 nRpc, nToolExec, nCreate, nSettledTools>>
  /\ UNCHANGED <<ctrlVars, pureVars, concVars>>

\* getEmbedding wraps the failure of the provider
EmbeddingError(providerMessage) ==
  Err("Failed to create embedding: " \o providerMessage)

\* the embedding request settles: failure, or a vector; an empty vector makes
\* the search return [], any other one is sent to match_documents
EmbeddingSettles ==
  /\ pc = "tool"
  /\ spc = "embedding"
  /\ \/ /\ faults < MaxFaults
        /\ faults' = faults + 1
        /\ RetrySettle(Rejected(EmbeddingError("429 rate limit exceeded")))
        /\ spc' = "start"
        /\ UNCHANGED nRpc
     \/ \E embedding \in Embeddings :
          IF Len(embedding) = 0
          THEN /\ RetrySettle(Fulfilled(<<>>))
               /\ spc' = "start"
               /\ UNCHANGED <<faults, nRpc>>
          ELSE /\ spc' = "rpc"
               /\ nRpc' = nRpc + 1
               /\ UNCHANGED <<retryVars, faults>>
  /\ UNCHANGED <<script, storeVars, turnVars, tpc, curCall, execResult,
                 nEmbedding, nToolExec, nCreate, nSettledTools>>
  /\ UNCHANGED <<ctrlVars, pureVars, concVars>>

\* the error thrown for an error object of match_documents
RpcFailure(error) ==
  IF \/ error.code = "P0001"
     \/ Includes(error.message, "function")
     \/ Includes(error.message, "does not exist")
  THEN Err("The match_documents function does not exist in Supabase. Please ensure it is created in your database.")
  ELSE Err("Supabase error: " \o error.message)

\* (data as SupabaseDocument[]) || []
DataOrEmpty(data) == IF data = None THEN <<>> ELSE data[1]

\* match_documents settles: it answers an error object, which is thrown as
\* an Error, or it answers data
RpcSettles ==
  /\ pc = "tool"
  /\ spc = "rpc"
  /\ \/ /\ faults < MaxFaults
        /\ faults' = faults + 1
        /\ \E e \in RpcErrors : RetrySettle(Rejected(RpcFailure(e)))
     \/ /\ \E data \in RpcData : RetrySettle(Fulfilled(DataOrEmpty(data)))
        /\ UNCHANGED faults
  /\ spc' = "start"
  /\ UNCHANGED <<script, storeVars, turnVars, tpc, curCall, execResult,
                 nEmbedding, nRpc, nToolExec, nCreate, nSettledTools>>
  /\ UNCHANGED <<ctrlVars, pureVars, concVars>>

\* what the search case of executeToolCall returns for the settled withRetry
SearchToolResult(settled) ==
  IF settled.ok
  THEN LET docs == ValueOf(settled)
            Found(extracted) == ToolResult(FoundPayload(docs, extracted), extracted)
       IN IF Len(docs) = 0
          THEN ToolResult(NoDocumentsPayload, <<>>)
          ELSE Found(extractProductsFromDocuments(docs))
  ELSE ToolResult(SearchErrorPayload(ErrorOf(settled)), <<>>)

\* withRetry has settled: the search case returns its result, a failure
\* included (the catch of executeToolCall)
ExecSearchSettles ==
  /\ pc = "tool"
  /\ tpc = "search"
  /\ rpc \in {"returned", "threw"}
  /\ execResult' = Some(Fulfilled(SearchToolResult(retryResult[1])))
  /\ tpc' = "settled"
  /\ rpc' = "idle"
  /\ UNCHANGED <<script, maxRetries, baseDelay, retryI, lastError, retryResult,
                 fnCalls, delays, storeVars, turnVars, countVars, curCall, spc>>
  /\ UNCHANGED <<ctrlVars, pureVars, concVars>>

-----------------------------------------------------------------------------
(* addMessage, after a tool call                                            *)

\* the forced search has settled: its two entries are appended and the
\* post-tool completion is requested
ForcedToolSettles ==
  /\ pc = "tool"
  /\ tpc = "settled"
  /\ path = "forced"
  /\ tpc' = "idle"
  /\ nSettledTools' = nSettledTools + 1
  /\ IF execResult[1].ok
     THEN LET searchResult == ValueOf(execResult[1])
              extended == messages
                \o <<AssistantToolCalls(NULL, <<ForcedCall(content)>>),
                     ToolMessage("forced-search", SearchTool, searchResult.result)>>
          IN /\ allProducts' = searchResult.products
             /\ messages' = extended
             /\ requests' = SendCompletion(requests, extended)
             /\ pc' = "retry"
             /\ UNCHANGED thrown
     ELSE /\ Abort(ErrorOf(execResult[1]))
          /\ UNCHANGED <<allProducts, messages, requests>>
  /\ UNCHANGED <<retryVars, storeVars, path, sessionId, content,
                 assistantContent, toolCalls, tcIdx, responses,
                 createText, products, response, curCall, execResult, spc,
                 faults, nEmbedding, nRpc, nToolExec, nCreate>>
  /\ UNCHANGED <<ctrlVars, pureVars, concVars>>

RECURSIVE ReminderLines(_, _)
ReminderLines(ps, k) ==
  IF k > Len(ps) THEN ""
  ELSE (IF k > 1 THEN "\n" ELSE "")
       \o "- Product ID: " \o ps[k].productId \o ", Name: " \o ps[k].name
       \o ReminderLines(ps, k + 1)

\* the system entry appended for the second completion
ReminderMessage(ps) ==
  TextMessage("system",
    "The search found " \o ToString(Len(ps))
      \o " products. Make sure to mention all of them in your response:\n"
      \o ReminderLines(ps, 1))

\* [...messages] and, when products were found, the reminder
FollowUpMessagesAlways(msgs, uniqueProducts) ==
  Append(msgs, ReminderMessage(uniqueProducts))
FollowUpMessages(msgs, uniqueProducts) ==
  IF Len(uniqueProducts) > 0
  THEN Append(msgs, ReminderMessage(uniqueProducts))
  ELSE msgs

\* the tool entry the loop appends for a settled call
LoopToolMessageFirstId(call, settled) ==
  IF settled.ok
  THEN ToolMessage(CallId(1), call.name, ValueOf(settled).result)
  ELSE ToolMessage(CallId(1), call.name, ExecuteFailedPayload(call.name, ErrorOf(settled)))
LoopToolMessage(call, settled) ==
  IF settled.ok
  THEN ToolMessage(call.id, call.name, ValueOf(settled).result)
  ELSE ToolMessage(call.id, call.name, ExecuteFailedPayload(call.name, ErrorOf(settled)))

\* a call of the loop has settled: its tool entry is appended and its products
\* accumulated; then the next call is executed, or, after the last one, the
\* second completion is requested
LoopToolSettles ==
  /\ pc = "tool"
  /\ tpc = "settled"
  /\ path = "tools"
  /\ nSettledTools' = nSettledTools + 1
  /\ LET settled == execResult[1]
         extended == Append(messages, LoopToolMessage(curCall[1], settled))
         accumulated == IF settled.ok THEN allProducts \o ValueOf(settled).products
                        ELSE allProducts
     IN /\ messages' = extended
        /\ allProducts' = accumulated
        /\ IF LoopHasMore(tcIdx, toolCalls)
           THEN /\ tcIdx' = tcIdx + 1
                /\ EnterExecute(toolCalls[tcIdx + 1])
                /\ UNCHANGED <<pc, requests, products>>
           ELSE /\ pc' = "second"
                /\ tpc' = "idle"
                /\ products' = DedupById(accumulated)
                /\ requests' = SendCompletion(requests,
                                      FollowUpMessages(extended, DedupById(accumulated)))
                /\ UNCHANGED <<tcIdx, curCall, execResult, spc, nToolExec>>
  /\ UNCHANGED <<retryVars, storeVars, path, sessionId, content,
                 assistantContent, toolCalls, responses, createText,
                 response, thrown, faults, nEmbedding, nRpc, nCreate>>
  /\ UNCHANGED <<ctrlVars, pureVars, concVars>>

\* the completion requested after the forced search settles: a non-empty
\* text is persisted with the products of the search; otherwise the code
\* falls through to the direct answer
RetryCompletionSettles ==
  /\ pc = "retry"
  /\ \E r \in LaterCompletions :
       /\ responses' = Append(responses, r)
       /\ IF r.kind = "throw" THEN
            /\ Abort(ProviderError)
            /\ UNCHANGED <<createText, products, nCreate>>
          ELSE
            /\ UNCHANGED thrown
            /\ IF r.kind = "message" /\ Truthy(r.content)
               THEN RequestCreate(r.content, allProducts)
               ELSE RequestCreate(OrNull(assistantContent), <<>>)
  /\ UNCHANGED <<retryVars, storeVars, toolVars, path, sessionId, content,
                 messages, requests, assistantContent, toolCalls, tcIdx,
                 allProducts, response, faults, nEmbedding, nRpc, nToolExec,
                 nSettledTools>>
  /\ UNCHANGED <<ctrlVars, pureVars, concVars>>

\* if (finalChoice.message.tool_calls?.length) { log only }: of the calls the
\* second completion requests, the ones that are executed
FurtherCallsAll(calls) == calls
FurtherCalls(calls) == <<>>

\* the second completion settles: its tool calls are ignored, the products
\* are reconciled with its text and the turn is handed to the store
SecondCompletionSettles ==
  /\ pc = "second"
  /\ \E r \in LaterCompletions :
       /\ responses' = Append(responses, r)
       /\ IF r.kind = "throw" THEN
            /\ Abort(ProviderError)
            /\ UNCHANGED <<createText, products, nCreate>>
          ELSE IF r.kind = "none" THEN
            /\ Abort(Err("No follow-up response from OpenAI"))
            /\ UNCHANGED <<createText, products, nCreate>>
          ELSE
            /\ RequestCreate(OrNull(r.content), Reconcile(products, r.content))
            /\ UNCHANGED thrown
       /\ nToolExec' = nToolExec + Len(FurtherCalls(r.tool_calls))
  /\ UNCHANGED <<retryVars, storeVars, toolVars, path, sessionId, content,
                 messages, requests, assistantContent, toolCalls, tcIdx,
                 allProducts, response, faults, nEmbedding, nRpc,
                 nSettledTools>>
  /\ UNCHANGED <<ctrlVars, pureVars, concVars>>

\* what addMessage returns for the created row
Response(row, ps) ==
  [sessionId |-> row.sessionId, userMessage |-> row.userMessage,
   assistantMessage |-> row.assistantMessage, products |-> ps]

\* chatMessage.create settles: the row is stored, addMessage returns it with
\* the products and createChat answers 201, or the failure is rethrown
CreateSettles ==
  /\ pc = "create"
  /\ \/ /\ turns' = InsertTurn(turns, Turn(sessionId, content, createText))
        /\ response' = Some(Response(Turn(sessionId, content, createText), products))
        /\ pc' = "returned"
        /\ status' = 201
        /\ UNCHANGED thrown
     \/ /\ Abort(Err("chat message write failed"))
        /\ UNCHANGED <<turns, response, status>>
  /\ UNCHANGED <<retryVars, agentPrompt, toolVars, countVars, path, sessionId,
                 content, messages, requests, assistantContent, toolCalls,
                 tcIdx, allProducts, responses, createText, products>>
  /\ UNCHANGED <<session, pureVars, concVars>>

Next ==
  \/ createChat
  \/ AgentSettles
  \/ HistorySettles
  \/ FirstCompletionSettles
  \/ ExecStart
  \/ SearchRetryStep
  \/ SearchStart
  \/ EmbeddingSettles
  \/ RpcSettles
  \/ ExecSearchSettles
  \/ ForcedToolSettles
  \/ LoopToolSettles
  \/ RetryCompletionSettles
  \/ SecondCompletionSettles
  \/ CreateSettles

Spec == Init /\ [][Next]_vars

\* every call the request awaits settles and every backoff timer fires: the
\* request is a single sequential pipeline, so the step it awaits is the
\* only one enabled
SpecLive == Init /\ [][Next]_vars /\ WF_vars(Next)

-----------------------------------------------------------------------------
(* The product functions applied on their own                               *)

\* the lists of at most n elements of S
ListsUpTo(S, n) == UNION {[1..k -> S] : k \in 0..n}

ProductIds == {"42", "7"}

\* records as the document extractor builds them, and as the assistant-text
\* extractor builds them: each field a real value or its placeholder
DocumentRecords ==
  UNION {{Product(id, n, d) : n \in {"Widget", PlaceholderName(id)},
                              d \in {"A small tool", NoDescription}} :
         id \in ProductIds}
AssistantRecords ==
  UNION {{Product(id, n, d) : n \in {"Widget Pro", PlaceholderName(id)},
                              d \in {"Fits in a pocket", NoDescription}} :
         id \in ProductIds}

\* final texts handed to extractProductsFromAssistantMessage: two blocks with
\* a marker and a description each, without and with numbered bold headers,
\* and one block with a long description
AssistantTexts ==
  {"Product ID: 7\nDescription: first\n\nProduct ID: 9\nDescription: second",
   "1. **Gizmo**\n- Product ID: 7\n- Description: first\n\n2. **Gadget**\n- Product ID: 9\n- Description: second",
   "1. **Gizmo**\n- Product ID: 7\n- Description: " \o LongText,
   "Nothing matches your request."}

Given(fn, ps, aps, docs, text) ==
  [fn |-> fn, products |-> ps, assistantProducts |-> aps, docs |-> docs,
   text |-> text]

\* the arguments: a list to deduplicate; a deduplicated list and the list
\* extracted from the text, to merge; the documents of a search; a final text
GivenArguments ==
  {Given("dedup", ps, <<>>, <<>>, "") : ps \in ListsUpTo(DocumentRecords, MaxProducts)}
    \cup {Given("enrich", ps, aps, <<>>, "") :
            ps \in {l \in ListsUpTo(DocumentRecords, MaxProducts) : DedupById(l) = l},
            aps \in ListsUpTo(AssistantRecords, MaxProducts)}
    \cup {Given("extract", <<>>, <<>>, docs, "") :
            docs \in ListsUpTo(MatchedDocuments, MaxDocs)}
    \cup {Given("parse", <<>>, <<>>, <<>>, text) : text \in AssistantTexts}

InitPure ==
  /\ script = <<>>
  /\ maxRetries = 3
  /\ baseDelay = 1000
  /\ retryI = 0
  /\ lastError = None
  /\ rpc = "idle"
  /\ retryResult = None
  /\ fnCalls = 0
  /\ delays = <<>>
  /\ OrchIdle
  /\ applied = "ready"
  /\ given \in GivenArguments
  /\ result = <<>>
  /\ orchestrations = <<>>

\* the deduplication is applied to the list given, then to its own result
DedupApplied ==
  /\ given.fn = "dedup"
  /\ Len(result) < 2
  /\ applied' = "dedup"
  /\ result' = Append(result, DedupById(IF result = <<>> THEN given.products
                                        ELSE result[Len(result)]))
  /\ UNCHANGED <<retryVars, orchVars, given, concVars>>

\* uniqueProducts.map(...) is applied to the two lists given
EnrichApplied ==
  /\ given.fn = "enrich"
  /\ applied = "ready"
  /\ applied' = "enrich"
  /\ result' = <<EnrichFrom(given.products, given.assistantProducts, 1)>>
  /\ UNCHANGED <<retryVars, orchVars, given, concVars>>

\* extractProductsFromDocuments is applied to the documents given
ExtractApplied ==
  /\ given.fn = "extract"
  /\ applied = "ready"
  /\ applied' = "extract"
  /\ result' = <<extractProductsFromDocuments(given.docs)>>
  /\ UNCHANGED <<retryVars, orchVars, given, concVars>>

\* extractProductsFromAssistantMessage is applied to the text given
ParseApplied ==
  /\ given.fn = "parse"
  /\ applied = "ready"
  /\ applied' = "parse"
  /\ result' = <<extractProductsFromAssistantMessage(given.text)>>
  /\ UNCHANGED <<retryVars, orchVars, given, concVars>>

NextPure ==
  \/ DedupApplied
  \/ EnrichApplied
  \/ ExtractApplied
  \/ ParseApplied

SpecPure == InitPure /\ [][NextPure]_vars

-----------------------------------------------------------------------------
(* Requests served at the same time                                         *)

\* Each request runs addMessage on locals of its own; the invocations share
\* the ChatMessage table and the agent row, and interleave at their awaits.
\* The awaits inside executeToolCall touch locals of that call only and are
\* taken as one step here.

Orchestrations == 1..MaxOrchestrations

\* the locals of one invocation of addMessage
Locals(at, branch, sid, userText, msgs, calls, found, text, ps) ==
  [pc |-> at, path |-> branch, sessionId |-> sid, content |-> userText,
   messages |-> msgs, toolCalls |-> calls, allProducts |-> found,
   createText |-> text, products |-> ps]

\* an invocation assigns its own locals: const messages and let allProducts
\* are declared inside addMessage
AssignLocalsShared(all, p, locals) ==
  [q \in DOMAIN all |->
     IF q = p THEN locals
     ELSE [all[q] EXCEPT !.allProducts = locals.allProducts]]
AssignLocals(all, p, locals) == [all EXCEPT ![p] = locals]

\* what the providers answer to requests served at the same time; the first
\* request is for session s1, the others for s1 or s2
ConcFirstCompletions ==
  {CompletionThrew, Completion("Hello! How can I help?", <<>>),
   Completion(NULL, RequestedCalls(1, 1))}
ConcSearches ==
  {Fulfilled(<<DocWidget, DocWidgetBare>>),
   Rejected(Err("Supabase error: TypeError: fetch failed"))}
ConcLaterCompletions ==
  {CompletionThrew, Completion("Here is what I found.", <<>>)}

InitConc ==
  /\ script = <<>>
  /\ maxRetries = 3
  /\ baseDelay = 1000
  /\ retryI = 0
  /\ lastError = None
  /\ rpc = "idle"
  /\ retryResult = None
  /\ fnCalls = 0
  /\ delays = <<>>
  /\ OrchIdle
  /\ applied = "idle"
  /\ given = <<>>
  /\ result = <<>>
  /\ \E sids \in {f \in [Orchestrations -> {"s1", "s2"}] : f[1] = "s1"} :
       orchestrations =
         [p \in Orchestrations |->
            Locals("agent", "none", sids[p],
                   IF p % 2 = 1 THEN "hello there" ELSE "Any INVENTORY left?",
                   <<>>, <<>>, <<>>, NULL, <<>>)]

\* the step of invocation p that leaves the table alone
ConcLocalStep(p, locals) ==
  /\ orchestrations' = AssignLocals(orchestrations, p, locals)
  /\ UNCHANGED <<retryVars, orchVars, pureVars>>

\* prisma.agent.findUnique settles for p
ConcAgentSettles(p) ==
  LET my == orchestrations[p] IN
  /\ my.pc = "agent"
  /\ \E at \in {"history", "threw"} : ConcLocalStep(p, [my EXCEPT !.pc = at])

\* chatMessage.findMany settles for p: the prompt is built from the table as
\* it is now
ConcHistorySettles(p) ==
  LET my == orchestrations[p] IN
  /\ my.pc = "history"
  /\ ConcLocalStep(p,
       [my EXCEPT !.pc = "first",
                  !.messages = <<TextMessage("system", EnhancedSystemPrompt(agentPrompt))>>
                                 \o ChatHistory(turns, my.sessionId)
                                 \o <<TextMessage("user", my.content)>>])

\* the first completion settles for p
ConcFirstSettles(p) ==
  LET my == orchestrations[p] IN
  /\ my.pc = "first"
  /\ \E r \in ConcFirstCompletions :
       ConcLocalStep(p,
         IF r.kind = "throw" THEN [my EXCEPT !.pc = "threw"]
         ELSE IF Len(r.tool_calls) = 0
         THEN IF shouldUseSearch(my.content)
              THEN [my EXCEPT !.pc = "tool", !.path = "forced"]
              ELSE [my EXCEPT !.pc = "create", !.path = "direct",
                              !.createText = OrNull(r.content)]
         ELSE [my EXCEPT !.pc = "tool", !.path = "tools",
                         !.toolCalls = r.tool_calls,
                         !.messages = Append(@, AssistantToolCalls(r.content, r.tool_calls))])

\* executeToolCall settles for p, on the forced path or for the one call of
\* the loop
ConcToolSettles(p) ==
  LET my == orchestrations[p] IN
  /\ my.pc = "tool"
  /\ \E settled \in ConcSearches :
     \E searchResult \in {SearchToolResult(settled)} :
       ConcLocalStep(p,
         IF my.path = "forced"
         THEN [my EXCEPT
                 !.pc = "retry",
                 !.allProducts = searchResult.products,
                 !.messages = @ \o <<AssistantToolCalls(NULL, <<ForcedCall(my.content)>>),
                                     ToolMessage("forced-search", SearchTool,
                                                 searchResult.result)>>]
         ELSE [my EXCEPT
                 !.pc = "second",
                 !.allProducts = @ \o searchResult.products,
                 !.products = DedupById(my.allProducts \o searchResult.products),
                 !.messages = Append(@, LoopToolMessage(my.toolCalls[1],
                                                        Fulfilled(searchResult)))])

\* the completion after the tool settles for p
ConcLaterSettles(p) ==
  LET my == orchestrations[p] IN
  /\ my.pc \in {"retry", "second"}
  /\ \E r \in ConcLaterCompletions :
       ConcLocalStep(p,
         IF r.kind = "throw" THEN [my EXCEPT !.pc = "threw"]
         ELSE IF my.pc = "retry"
         THEN [my EXCEPT !.pc = "create", !.createText = r.content,
                         !.products = my.allProducts]
         ELSE [my EXCEPT !.pc = "create", !.createText = OrNull(r.content),
                         !.products = Reconcile(my.products, r.content)])

\* chatMessage.create settles for p: its row is added to the table
ConcCreateSettles(p) ==
  LET my == orchestrations[p] IN
  /\ my.pc = "create"
  /\ orchestrations' = AssignLocals(orchestrations, p, [my EXCEPT !.pc = "returned"])
  /\ turns' = InsertTurn(turns, Turn(my.sessionId, my.content, my.createText))
  /\ UNCHANGED <<retryVars, agentPrompt, turnVars, toolVars, countVars,
                 ctrlVars, pureVars>>

NextConc ==
  \E p \in Orchestrations :
    \/ ConcAgentSettles(p)
    \/ ConcHistorySettles(p)
    \/ ConcFirstSettles(p)
    \/ ConcToolSettles(p)
    \/ ConcLaterSettles(p)
    \/ ConcCreateSettles(p)

SpecConc == InitConc /\ [][NextConc]_vars

-----------------------------------------------------------------------------
(* Properties of withRetry (checked under SpecRetry)                        *)

RetrySettled == rpc \in {"returned", "threw"}

\* the k-th invocation of the scripted operation fails with a retryable error
FailsTransient(k) ==
  /\ ~script[k].ok
  /\ ErrorOf(script[k]).message \in TransientMessages

\* the k-th invocation fails with an error carrying a non-retryable marker
FailsPermanent(k) ==
  /\ ~script[k].ok
  /\ ErrorOf(script[k]).message \in PermanentMessages

\* C1: if the operation fails retryably on its first n-1 invocations and
\* succeeds on the n-th, with maxRetries >= n >= 1, then withRetry returns
\* that success value and has invoked the operation exactly n times.
C1_SucceedsOnNthCall ==
  \A n \in 1..MaxAttempts :
    ( /\ RetrySettled
      /\ maxRetries >= n
      /\ \A k \in 1..(n - 1) : FailsTransient(k)
      /\ script[n].ok )
    => /\ rpc = "returned"
       /\ retryResult = Some(Fulfilled(ValueOf(script[n])))
       /\ fnCalls = n

C1_Witness ==
  /\ rpc = "returned"
  /\ fnCalls = 3
  /\ maxRetries = 3
  /\ FailsTransient(1) /\ FailsTransient(2)

\* C2: an invocation that fails with a non-retryable marker makes withRetry
\* fail at once with that same error, and no invocation follows it; when it
\* is the first invocation, the operation is invoked exactly once.
C2_NonRetryableFailsImmediately ==
  /\ \A k \in 1..(fnCalls - 1) : ~FailsPermanent(k)
  /\ (fnCalls >= 1 /\ rpc # "call" /\ FailsPermanent(fnCalls))
       => /\ rpc = "threw"
          /\ retryResult = Some(Rejected(ErrorOf(script[fnCalls])))
  /\ (RetrySettled /\ maxRetries >= 1 /\ FailsPermanent(1)) => fnCalls = 1

C2_Witness ==
  /\ rpc = "threw"
  /\ maxRetries = 3
  /\ fnCalls = 1
  /\ FailsPermanent(1)

\* C3: if every invocation fails with a retryable error, the operation is
\* invoked exactly maxRetries times (maxRetries >= 1) and withRetry fails
\* with the error of the last invocation.
C3_ExhaustionThrowsLastError ==
  ( /\ RetrySettled
    /\ maxRetries >= 1
    /\ \A k \in 1..maxRetries : FailsTransient(k) )
  => /\ rpc = "threw"
     /\ fnCalls = maxRetries
     /\ retryResult = Some(Rejected(ErrorOf(script[maxRetries])))

C3_Witness ==
  /\ rpc = "threw"
  /\ maxRetries = 3
  /\ fnCalls = 3
  /\ \A k \in 1..3 : FailsTransient(k)
  /\ ErrorOf(script[3]) # ErrorOf(script[1])
  /\ ErrorOf(script[3]) # ErrorOf(script[2])

-----------------------------------------------------------------------------
(* Properties of addMessage (checked under Spec)                            *)

\* the ChatMessage table before the request
InitialTurns == (CHOOSE request \in Requests : request.content = content).turns

\* the row created last
LastTurn == turns[Len(turns)]

\* user texts that no alternative of the intent pattern matches, and user
\* texts that one matches ("inventory")
PlainContents == {"hello there"}
IntentContents == {"Any INVENTORY left?"}

\* the first completion answered with a message that requests no tool call
FirstRequestsNoTool ==
  /\ Len(responses) >= 1
  /\ responses[1].kind = "message"
  /\ Len(responses[1].tool_calls) = 0

\* the first completion answered with a message that requests tool calls
FirstRequestsTools ==
  /\ Len(responses) >= 1
  /\ responses[1].kind = "message"
  /\ Len(responses[1].tool_calls) > 0

DirectCase == FirstRequestsNoTool /\ content \in PlainContents
ForcedCase == FirstRequestsNoTool /\ content \in IntentContents

\* what the direct case has in every state: one completion request, no tool
DirectCaseCalls ==
  /\ Len(requests) = 1
  /\ nToolExec = 0
  /\ nEmbedding = 0
  /\ nRpc = 0
  /\ nCreate <= 1

\* C4 as stated: with no requested tool call and a user text that does not
\* match the intent pattern, the provider is called once, no tool runs, and
\* the one turn persisted has the raw text of the first completion as its
\* assistantMessage; the returned product list is empty.
C4_DirectPersistsRawText ==
  DirectCase =>
    /\ DirectCaseCalls
    /\ pc = "returned" =>
         /\ turns = Append(InitialTurns,
                           Turn(sessionId, content, responses[1].content))
         /\ response[1].products = <<>>

\* C4 amended: as above, but the assistantMessage persisted is the raw text
\* of the first completion when that text is not empty, and null when the
\* text is absent or empty.
C4_DirectPersistsTextOrNull ==
  DirectCase =>
    /\ DirectCaseCalls
    /\ pc = "returned" =>
         /\ turns = Append(InitialTurns,
                           Turn(sessionId, content,
                                IF responses[1].content \in {NULL, ""}
                                THEN NULL ELSE responses[1].content))
         /\ response[1].products = <<>>
         /\ response[1].assistantMessage = LastTurn.assistantMessage

C4_Witness ==
  /\ DirectCase
  /\ pc = "returned"
  /\ LastTurn.assistantMessage = "Hello! How can I help?"

\* the two entries the forced search appends to the message list
ForcedEntries ==
  << [role |-> "assistant", content |-> NULL,
      tool_calls |-> <<ToolCall("forced-search", SearchTool,
                                Json([query |-> content]))>>,
      tool_call_id |-> NULL, name |-> NULL],
     [role |-> "tool", content |-> ValueOf(execResult[1]).result,
      tool_calls |-> <<>>, tool_call_id |-> "forced-search",
      name |-> SearchTool] >>

\* C5: on the forced-tool path there is exactly one tool execution, of a
\* synthetic search_knowledge_base call whose query is the user's raw text,
\* and exactly one more completion request after it, sent with the synthetic
\* assistant entry and its tool response appended to the first message list.
C5_ForcedOneToolOneCompletion ==
  ForcedCase =>
    /\ nToolExec = 1
    /\ curCall = Some(ToolCall("forced-search", SearchTool,
                               Json([query |-> content])))
    /\ nSettledTools <= 1
    /\ pc = "tool" => Len(requests) = 1
    /\ pc # "tool" =>
         /\ nSettledTools = 1
         /\ Len(requests) = 2
         /\ requests[2] = requests[1] \o ForcedEntries

C5_Witness ==
  /\ ForcedCase
  /\ pc = "returned"
  /\ Len(requests) = 2
  /\ nEmbedding >= 1

\* the text of a completion: its content, absent (NULL) when there is no
\* message
TextOf(r) == IF r.kind = "message" THEN r.content ELSE NULL

\* C6: on the forced-tool path the assistantMessage persisted is the text of
\* the post-tool completion, whatever that completion answered (an absent or
\* empty text is persisted as no text), and never the text of the first one.
C6_ForcedPersistsPostToolText ==
  (ForcedCase /\ pc = "returned") =>
    LastTurn.assistantMessage =
      (IF TextOf(responses[2]) \in {NULL, ""} THEN NULL ELSE TextOf(responses[2]))

\* C7 as stated: a turn on the forced-tool path makes three completion
\* requests.
C7_ForcedThreeCompletions ==
  (ForcedCase /\ pc = "returned") => Len(requests) = 3

\* C7 amended: a turn on the forced-tool path makes two completion requests
\* in all, as many as a turn that executes requested tool calls and one more
\* than a direct answer.
C7_ForcedTwoCompletions ==
  pc = "returned" =>
    /\ ForcedCase => Len(requests) = 2
    /\ FirstRequestsTools => Len(requests) = 2
    /\ DirectCase => Len(requests) = 1

C7_Witness ==
  /\ ForcedCase
  /\ pc = "returned"
  /\ Len(requests) = 2
  /\ Len(responses) = 2

\* C8: an orchestration that returns has created exactly one turn, holding
\* the user content, on every path; and once the create is requested no
\* completion, embedding, backend or tool call follows it.
C8_OneTurnCreatedLast ==
  /\ [](pc = "returned" =>
          /\ nCreate = 1
          /\ Len(turns) = Len(InitialTurns) + 1
          /\ SubSeq(turns, 1, Len(InitialTurns)) = InitialTurns
          /\ LastTurn.sessionId = sessionId
          /\ LastTurn.userMessage = content
          /\ LastTurn.assistantMessage = createText)
  /\ [][nCreate >= 1 =>
          UNCHANGED <<requests, nEmbedding, nRpc, nToolExec, nCreate>>]_vars

C8_Witness ==
  /\ pc = "returned"
  /\ FirstRequestsTools
  /\ nSettledTools = 2
  /\ nRpc >= 1
  /\ Len(turns) = Len(InitialTurns) + 1

\* C9: when a completion request (first, forced-path, or second) fails or
\* answers no message, the orchestration aborts and no turn is written.
C9_FailedCompletionAborts ==
  (\E k \in 1..Len(responses) : responses[k].kind \in {"throw", "none"}) =>
    /\ pc = "threw"
    /\ nCreate = 0
    /\ turns = InitialTurns

\* the tool-role entries of a message list
ToolEntries(msgs) == SelectSeq(msgs, LAMBDA m : m.role = "tool")

\* C10: in the tool-execution round a failed tool call aborts nothing: the
\* orchestration never throws while calls remain, and by the time the round
\* is over every requested call has been executed and answered by a tool
\* entry and the second completion has been requested.
C10_ToolFailureNeverAborts ==
  FirstRequestsTools =>
    /\ pc = "tool" =>
         /\ thrown = None
         /\ Len(requests) = 1
         /\ Len(ToolEntries(messages)) = nSettledTools
    /\ pc # "tool" =>
         /\ nToolExec = Len(toolCalls)
         /\ nSettledTools = Len(toolCalls)
         /\ Len(ToolEntries(messages)) = Len(toolCalls)
         /\ Len(requests) = 2
    /\ pc = "threw" => Len(responses) = 2
    /\ pc = "returned" => Len(turns) = Len(InitialTurns) + 1

\* a turn whose first tool call failed and whose second was still executed
C10_Witness ==
  /\ FirstRequestsTools
  /\ pc = "returned"
  /\ Len(toolCalls) = 2
  /\ ToolEntries(messages)[1].content.value.kind \in {"error", "failed"}
  /\ ToolEntries(messages)[2].tool_call_id = toolCalls[2].id
  /\ Len(turns) = Len(InitialTurns) + 1

\* the Tool Invoker has settled the call handed to it
ExecuteSettled == tpc = "settled"

\* C11: executeToolCall returns a result (payload and product list) for every
\* tool name and every argument text, one that is not JSON included; it
\* never throws.
C11_ExecuteNeverThrows ==
  ExecuteSettled => execResult[1].ok

\* C12: a call whose name is not search_knowledge_base returns the "unknown
\* tool" payload with an empty product list, and while it is the call being
\* executed neither the embedding provider nor the vector backend is asked.
C12_UnknownToolAnswered ==
  /\ []((ExecuteSettled /\ curCall[1].name # SearchTool) =>
          execResult[1] =
            Fulfilled(ToolResult(UnknownToolPayload(curCall[1].name), <<>>)))
  /\ [][(curCall # None /\ curCall[1].name # SearchTool /\ curCall' = curCall)
          => (nEmbedding' = nEmbedding /\ nRpc' = nRpc)]_vars

\* C13: for a first completion requesting calls c1..ck, the message list is
\* the first request, the assistant entry, and one tool entry per settled
\* call, the i-th carrying the id and name of ci, whether the call succeeded
\* or failed; the second completion is requested only when all k are there,
\* and is sent all k in that order.
C13_ToolEntriesInRequestedOrder ==
  FirstRequestsTools =>
    LET entries == ToolEntries(messages) IN
      /\ Len(entries) = nSettledTools
      /\ \A i \in 1..Len(entries) :
           /\ entries[i].tool_call_id = toolCalls[i].id
           /\ entries[i].name = toolCalls[i].name
      /\ messages =
           requests[1] \o <<AssistantToolCalls(assistantContent, toolCalls)>>
             \o entries
      /\ Len(requests) = 1 => pc = "tool"
      /\ Len(requests) = 2 =>
           /\ Len(entries) = Len(toolCalls)
           /\ ToolEntries(requests[2]) = entries

\* two requested calls, the first answered by the Tool Invoker, the second
\* failing in it: both entries are there when the turn returns
C13_Witness ==
  /\ FirstRequestsTools
  /\ pc = "returned"
  /\ Len(toolCalls) = 2
  /\ Len(ToolEntries(requests[2])) = 2
  /\ ToolEntries(messages)[1].content.value.kind = "found"
  /\ ToolEntries(messages)[2].content.value.kind = "failed"
  /\ ToolEntries(messages)[2].tool_call_id = CallId(2)

\* the executions a turn is due: the calls the first completion requested,
\* or the one forced search
DueExecutions ==
  IF FirstRequestsTools THEN Len(toolCalls)
  ELSE IF ForcedCase THEN 1 ELSE 0

\* C14: tool execution is one round: the calls the second completion requests
\* are never executed. A turn that is over has executed as many calls as the
\* first completion requested (one on the forced path), nothing is executed
\* or requested once two completions have settled, and the provider is asked
\* at most twice.
C14_OneToolRound ==
  /\ [](/\ Len(requests) <= 2
        /\ Len(responses) <= 2
        /\ pc \in {"create", "returned", "threw"} => nToolExec = DueExecutions)
  /\ [][Len(responses) = 2 =>
          (nToolExec' = nToolExec /\ requests' = requests /\ tpc' = "idle")]_vars

\* a returned turn whose second completion asked for another call
C14_Witness ==
  /\ FirstRequestsTools
  /\ pc = "returned"
  /\ Len(responses) = 2
  /\ Len(responses[2].tool_calls) > 0
  /\ nToolExec = Len(toolCalls)

-----------------------------------------------------------------------------
(* Properties of the product functions (checked under SpecPure)             *)

IsPlaceholderName(p) == p.name = PlaceholderName(p.productId)
IsSentinelDescription(p) == p.description = NoDescription

\* C15: in the merge of the document-derived list with the assistant-text
\* list, a name or description that is not a placeholder before the merge is
\* not a placeholder after it.
C15_NeverDowngraded ==
  applied = "enrich" =>
    /\ Len(result[1]) = Len(given.products)
    /\ \A j \in 1..Len(given.products) :
         /\ ~IsPlaceholderName(given.products[j]) =>
              ~IsPlaceholderName(result[1][j])
         /\ ~IsSentinelDescription(given.products[j]) =>
              ~IsSentinelDescription(result[1][j])

\* a real name and a real description met placeholders of the text
C15_Witness ==
  /\ applied = "enrich"
  /\ \E j \in 1..Len(given.products), k \in 1..Len(given.assistantProducts) :
       /\ given.assistantProducts[k].productId = given.products[j].productId
       /\ IsPlaceholderName(given.assistantProducts[k])
       /\ IsSentinelDescription(given.assistantProducts[k])
       /\ given.products[j].name = "Widget"
       /\ result[1][j].name = "Widget"
       /\ result[1][j].description = "A small tool"

\* C16: deduplicating a list of products a second time yields the list the
\* first deduplication yielded.
C16_DedupIdempotent ==
  (applied = "dedup" /\ Len(result) = 2) => result[2] = result[1]

\* a list with a repeated productId, deduplicated twice
C16_Witness ==
  /\ applied = "dedup"
  /\ Len(result) = 2
  /\ Len(result[1]) < Len(given.products)
  /\ Len(result[1]) > 0

\* C17: the list merged from several documents has one entry per productId,
\* and when any of the documents supplied a real name for a productId the
\* entry carries a real name, whatever the order of the documents.
C17_RealNameWins ==
  applied = "extract" =>
    /\ \A i, j \in 1..Len(result[1]) :
         result[1][i].productId = result[1][j].productId => i = j
    /\ \A d \in 1..Len(given.docs) :
         \A k \in 1..Len(DocumentProducts(given.docs[d])) :
           LET p == DocumentProducts(given.docs[d])[k] IN
             ~IsPlaceholderName(p) =>
               \E m \in 1..Len(result[1]) :
                 /\ result[1][m].productId = p.productId
                 /\ ~IsPlaceholderName(result[1][m])

\* C19: for a productId of the document-derived list that the assistant-text
\* list also has (its first record of that productId), the name is the one of
\* the text iff the document-derived name is the placeholder and the one of
\* the text is not, the description likewise and independently, and the
\* productId is kept; a record the text does not have is kept whole.
C19_FieldLevelMerge ==
  applied = "enrich" =>
    /\ Len(result[1]) = Len(given.products)
    /\ \A j \in 1..Len(given.products) :
         LET p == given.products[j]
             q == result[1][j]
             hits == {k \in 1..Len(given.assistantProducts) :
                        given.assistantProducts[k].productId = p.productId}
             ap == given.assistantProducts[Least(hits)]
         IN IF hits = {} THEN q = p
            ELSE /\ q.productId = p.productId
                 /\ q.name = (IF IsPlaceholderName(p) /\ ~IsPlaceholderName(ap)
                              THEN ap.name ELSE p.name)
                 /\ q.description =
                      (IF IsSentinelDescription(p) /\ ~IsSentinelDescription(ap)
                       THEN ap.description ELSE p.description)

\* one record takes the name of the text and keeps its own description
C19_Witness ==
  /\ applied = "enrich"
  /\ \E j \in 1..Len(given.products) :
       /\ IsPlaceholderName(given.products[j])
       /\ given.products[j].description = "A small tool"
       /\ result[1][j].name = "Widget Pro"
       /\ result[1][j].description = "A small tool"
  /\ \E j \in 1..Len(given.products) :
       /\ given.products[j].name = "Widget"
       /\ IsSentinelDescription(given.products[j])
       /\ result[1][j].name = "Widget"
       /\ result[1][j].description = "Fits in a pocket"

-----------------------------------------------------------------------------
(* Properties of the reconciliation and of the search (checked under Spec)  *)

\* C18: on the tool-execution path, when the deduplicated accumulated list is
\* empty, the product list returned is exactly what the assistant-text
\* extractor yields on the text of the second completion if that text has
\* the marker "Product ID", and is empty if it has not.
C18_AdoptsExtractorOutput ==
  (FirstRequestsTools /\ pc = "returned" /\ DedupById(allProducts) = <<>>) =>
    response[1].products =
      (IF Truthy(responses[2].content)
          /\ Includes(responses[2].content, "Product ID")
       THEN extractProductsFromAssistantMessage(responses[2].content)
       ELSE <<>>)

\* the queries that are empty or hold only white space
BlankQueries == {"", "  "}

\* the call in execution is a search for a blank query
SearchingBlank ==
  /\ curCall # None
  /\ curCall[1].name = SearchTool
  /\ curCall[1].arguments.valid
  /\ QueryOf(curCall[1]) \in BlankQueries

\* C20: a search for an empty or white-space query returns the empty list at
\* its first attempt, without an error or a wait, and while it is the call in
\* execution no embedding and no match_documents request is made.
C20_BlankQueryReturnsEmpty ==
  /\ [](SearchingBlank =>
          /\ spc = "start"
          /\ rpc \notin {"threw", "wait"}
          /\ rpc = "returned" =>
               /\ retryResult = Some(Fulfilled(<<>>))
               /\ fnCalls = 1
               /\ delays = <<>>
          /\ tpc = "settled" =>
               execResult[1] = Fulfilled(ToolResult(NoDocumentsPayload, <<>>)))
  /\ [][(SearchingBlank /\ curCall' = curCall) =>
          (nEmbedding' = nEmbedding /\ nRpc' = nRpc /\ faults' = faults)]_vars

\* a search for white space has returned, with nothing asked of a provider
C20_Witness ==
  /\ SearchingBlank
  /\ QueryOf(curCall[1]) = "  "
  /\ tpc = "settled"
  /\ execResult[1].ok
  /\ fnCalls = 1
  /\ nEmbedding = 0
  /\ nRpc = 0

\* the error withRetry caught last is a failure of the embedding provider
EmbeddingFailedLast ==
  /\ lastError # None
  /\ Includes(lastError[1].message, "Failed to create embedding")

\* C21: a failure of the embedding provider during a search tool call is not
\* retried: withRetry fails at once, and the search has been attempted, and
\* the embedding provider asked, exactly once for that call.
C21_EmbeddingFailureNotRetried ==
  (tpc = "search" /\ spc = "start" /\ EmbeddingFailedLast) =>
    /\ rpc = "threw"
    /\ fnCalls = 1

\* the call in execution is the only one so far in this turn, so that the
\* counters of the turn are the counters of this call
FirstCallOfTurn == curCall # None /\ (path = "forced" \/ tcIdx = 1)

\* C22: within one search the embedding is obtained once and only the backend
\* call is retried: when every attempt reached the backend and the last one
\* succeeded, the backend has been asked once per attempt and the embedding
\* provider exactly once.
C22_EmbeddingObtainedOnce ==
  ( /\ FirstCallOfTurn
    /\ tpc = "search"
    /\ rpc = "returned"
    /\ nRpc >= 1
    /\ nRpc = fnCalls )
  => nEmbedding = 1

\* a message list is well formed: a tool entry answers a tool call of an
\* earlier assistant entry, and only assistant entries carry tool calls
WellFormed(msgs) ==
  \A i \in 1..Len(msgs) :
    /\ msgs[i].role = "tool" =>
         \E j \in 1..(i - 1) :
           /\ msgs[j].role = "assistant"
           /\ \E c \in 1..Len(msgs[j].tool_calls) :
                msgs[j].tool_calls[c].id = msgs[i].tool_call_id
    /\ msgs[i].role # "assistant" => msgs[i].tool_calls = <<>>

\* C30: at every point of an orchestration the message list, and every list
\* sent to the completion provider, is well formed.
C30_MessageListWellFormed ==
  /\ WellFormed(messages)
  /\ \A k \in 1..Len(requests) : WellFormed(requests[k])

\* the second completion was sent two tool entries, and a forced search its
\* synthetic pair
C30_Witness ==
  \/ /\ FirstRequestsTools
     /\ pc = "second"
     /\ Len(ToolEntries(requests[2])) = 2
     /\ ToolEntries(requests[2])[2].tool_call_id = CallId(2)
  \/ /\ ForcedCase
     /\ pc = "retry"
     /\ Len(ToolEntries(requests[2])) = 1

-----------------------------------------------------------------------------
(* The backoff of withRetry (checked under SpecRetry)                       *)

\* C27: the k-th wait of a withRetry call follows its k-th failed attempt
\* (attempt k - 1 counted from zero) and lasts baseDelay * 2^(k - 1); that
\* attempt failed with a retryable error and was not the last one allowed, so
\* no wait follows the final attempt or a non-retryable failure.
C27_BackoffDoubles ==
  /\ \A k \in 1..Len(delays) :
       /\ delays[k] = baseDelay * 2^(k - 1)
       /\ FailsTransient(k)
       /\ k < maxRetries
  /\ Len(delays) <= fnCalls
  /\ rpc = "wait" => Len(delays) = fnCalls
  /\ (RetrySettled /\ fnCalls >= 1) => Len(delays) = fnCalls - 1

C27_Witness ==
  /\ rpc = "threw"
  /\ maxRetries = 3
  /\ baseDelay = 500
  /\ delays = <<500, 1000>>
  /\ fnCalls = 3
  /\ FailsTransient(3)

-----------------------------------------------------------------------------
(* The controller in front of addMessage (checked under Spec)               *)

\* createChat has answered or addMessage has returned
RequestAnswered == pc \in {"returned", "rejected"}

\* C23: a message sent to an existing session that has no agent is
\* orchestrated with the default system prompt and persisted as one new turn.
C23_NoAgentUsesDefaultPrompt ==
  (session = Some(NULL) /\ Truthy(content) /\ RequestAnswered) =>
    /\ pc = "returned"
    /\ requests[1][1] = TextMessage("system", DefaultSystemPrompt \o PromptSuffix)
    /\ Len(turns) = Len(InitialTurns) + 1
    /\ LastTurn.userMessage = content

-----------------------------------------------------------------------------
(* The extractors applied on their own (checked under SpecPure)             *)

\* the identifiers a final text marks with "Product ID: <digits>", in order
MarkedIds(text) ==
  LET at == Ascending({k \in 1..Len(text) : ProductIdAt(text, k) # <<>>})
  IN [i \in 1..Len(at) |-> ProductIdAt(text, at[i])[1]]

\* a final text made of blocks: it has a marker, and a description label for
\* each of its markers
MadeOfBlocks(text) ==
  /\ MarkedIds(text) # <<>>
  /\ Cardinality({k \in 1..Len(text) : LabelEnd(text, k, "description") > 0})
       = Len(MarkedIds(text))

\* C24: the assistant-text extractor run on a final text made of k blocks,
\* each with its own marker and a description, yields k records, one per
\* block, with the identifiers of the markers and descriptions that are not
\* the sentinel, with or without numbered bold headers.
C24_OneRecordPerBlock ==
  (applied = "parse" /\ MadeOfBlocks(given.text)) =>
    /\ Len(result[1]) = Len(MarkedIds(given.text))
    /\ \A k \in 1..Len(result[1]) :
         /\ result[1][k].productId = MarkedIds(given.text)[k]
         /\ result[1][k].description # NoDescription

\* the body of the try of a document ran to its end
Survives(doc) == ~OutcomeOf(doc).threw

\* C26: the extractors return a list for every input; a document whose
\* processing fails part-way adds no record, and the result is what the
\* other documents alone yield.
C26_ExtractionNeverRaises ==
  /\ applied \in {"extract", "parse"} => Len(result) = 1
  /\ applied = "extract" =>
       /\ result[1] = extractProductsFromDocuments(SelectSeq(given.docs, Survives))
       /\ \A k \in 1..Len(result[1]) :
            \E d \in 1..Len(given.docs) :
              /\ Survives(given.docs[d])
              /\ \E j \in 1..Len(OutcomeOf(given.docs[d]).extractedProducts) :
                   OutcomeOf(given.docs[d]).extractedProducts[j] = result[1][k]

\* the document with a null content had a record from its metadata when its
\* processing failed; the result holds the record of the other document only
C26_Witness ==
  /\ applied = "extract"
  /\ given.docs = <<DocNullContent, DocWidget>>
  /\ ~Survives(DocNullContent)
  /\ OutcomeOf(DocNullContent).extractedProducts # <<>>
  /\ result = <<(<<Product("42", "Widget", NoDescription)>>)>>

\* what the markers of the free text of a document give on their own
TextProducts(doc) ==
  ScanMarkers(doc.content, ProductIdMatches(doc.content), 1, <<>>)

\* C28: when the metadata of a document yields a record whose name or
\* description is a placeholder and the free text has a marker for the same
\* identifier with a real value for that field, the document yields one
\* record for the identifier, with that value; in particular the sentinel
\* description is upgraded when the name of the metadata is real.
C28_PlaceholdersUpgradedInPlace ==
  applied = "extract" =>
    \A d \in 1..Len(given.docs) :
      LET doc == given.docs[d]
          fromMetadata == MetadataProducts(doc)
          mine == {k \in 1..Len(DocumentProducts(doc)) :
                     DocumentProducts(doc)[k].productId = fromMetadata[1].productId}
      IN (fromMetadata # <<>> /\ doc.content # NULL) =>
           \A t \in 1..Len(TextProducts(doc)) :
             LET found == TextProducts(doc)[t] IN
             found.productId = fromMetadata[1].productId =>
               /\ Cardinality(mine) = 1
               /\ \A k \in mine :
                    /\ ( /\ IsPlaceholderName(fromMetadata[1])
                         /\ ~IsPlaceholderName(found) )
                       => DocumentProducts(doc)[k].name = found.name
                    /\ ( /\ IsSentinelDescription(fromMetadata[1])
                         /\ ~IsSentinelDescription(found) )
                       => DocumentProducts(doc)[k].description = found.description

\* newlines and white space collapsed, at most 300 characters
Normalized(description) ==
  /\ Len(description) <= 300
  /\ \A k \in 1..Len(description) :
       /\ CharAt(description, k) \notin {"\n", "\t"}
       /\ ~LitAt(description, k, "  ")

\* C29: every description other than the sentinel in a record an extractor
\* returns is normalized: white space collapsed, at most 300 characters.
C29_DescriptionsNormalized ==
  applied \in {"extract", "parse"} =>
    \A k \in 1..Len(result[1]) :
      ~IsSentinelDescription(result[1][k]) =>
        Normalized(result[1][k].description)

-----------------------------------------------------------------------------
(* Requests served at the same time (checked under SpecConc)                *)

\* the invocations that returned
Returned == {p \in Orchestrations : orchestrations[p].pc = "returned"}

\* the row invocation p hands to the table
OwnTurn(p) ==
  Turn(orchestrations[p].sessionId, orchestrations[p].content,
       orchestrations[p].createText)

\* C25: in every interleaving of concurrent orchestrations, the message list
\* and the product list of an orchestration change only in a step of its
\* own, which changes no other orchestration; every orchestration that
\* returned has added one row with its own user text and final text, and the
\* table has grown by exactly one row per returned orchestration.
C25_OrchestrationsIsolated ==
  /\ [](/\ Len(turns) = Cardinality(Returned)
        /\ \A p \in Returned :
             Cardinality({k \in 1..Len(turns) : turns[k] = OwnTurn(p)})
               = Cardinality({q \in Returned : OwnTurn(q) = OwnTurn(p)}))
  /\ [][\A p \in Orchestrations :
          ( \/ orchestrations'[p].messages # orchestrations[p].messages
            \/ orchestrations'[p].allProducts # orchestrations[p].allProducts )
          => /\ orchestrations'[p].pc # orchestrations[p].pc
             /\ \A q \in Orchestrations \ {p} :
                  orchestrations'[q] = orchestrations[q]]_vars

\* two orchestrations of one session returned, one after a search that found
\* a product and one without a search
C25_Witness ==
  /\ Returned = Orchestrations
  /\ \A p \in Orchestrations : orchestrations[p].sessionId = "s1"
  /\ \E p, q \in Orchestrations :
       /\ orchestrations[p].allProducts # <<>>
       /\ orchestrations[q].allProducts = <<>>
       /\ orchestrations[p].messages # orchestrations[q].messages
  /\ Len(turns) = MaxOrchestrations

-----------------------------------------------------------------------------
(* Prompt construction (checked under Spec)                                 *)

\* the stored turns of the session of the request, by position in the table
StoredOwn == {k \in 1..Len(InitialTurns) : InitialTurns[k].sessionId = sessionId}

\* the number of entries the turns of the session stored before position k
\* contribute: one for each user text, one for each assistant text
EntriesBefore(k) ==
  Cardinality({j \in StoredOwn : j < k /\ InitialTurns[j].userMessage # NULL})
    + Cardinality({j \in StoredOwn : j < k /\ InitialTurns[j].assistantMessage # NULL})

\* C31: the list sent to the first completion is one system entry, the
\* history and one user entry with the incoming content; the history has,
\* for the stored turns of the session in creation order, the user entry of
\* a turn (when it has a user text) and then its assistant entry (when it
\* has an assistant text), so it has between 2 and 2 + 2 * (number of stored
\* turns) entries
C31_PromptConstruction ==
  Len(requests) >= 1 =>
    LET sent == requests[1]
        last == EntriesBefore(Len(InitialTurns) + 1) + 2
    IN /\ Len(sent) = last
       /\ 2 <= Len(sent) /\ Len(sent) <= 2 + 2 * Cardinality(StoredOwn)
       /\ sent[1].role = "system"
       /\ \A j \in 2..Len(sent) : sent[j].role # "system"
       /\ sent[last] = TextMessage("user", content)
       /\ \A k \in StoredOwn :
            LET u == InitialTurns[k].userMessage
                a == InitialTurns[k].assistantMessage
                at == EntriesBefore(k) + 2
            IN /\ u # NULL => sent[at] = TextMessage("user", u)
               /\ a # NULL =>
                    sent[IF u # NULL THEN at + 1 ELSE at] = TextMessage("assistant", a)

\* the first completion was sent a history of two turns of the session, one
\* of them without an assistant text, from a table that has a turn of
\* another session between them
C31_Witness ==
  /\ Len(requests) >= 1
  /\ Cardinality(StoredOwn) = 2
  /\ Len(InitialTurns) = 3
  /\ Len(requests[1]) = 5

-----------------------------------------------------------------------------
(* The reminder of the second completion (checked under Spec)               *)

\* the second completion of the tool path has been requested
SecondRequested == path = "tools" /\ Len(requests) = 2

\* the positions of the system entries of a message list
SystemEntries(msgs) == {j \in 1..Len(msgs) : msgs[j].role = "system"}

\* C32: the list sent to the second completion is the message list up to
\* the tool responses, followed by exactly one more system entry iff the
\* deduplicated accumulated product list is not empty; that entry names the
\* identifier and the name of every product of the list; when the list is
\* empty nothing is added
C32_ReminderIffProducts ==
  SecondRequested =>
    LET sent == requests[2]
        uniqueProducts == DedupById(allProducts)
    IN /\ SubSeq(sent, 1, Len(messages)) = messages
       /\ messages[Len(messages)].role = "tool"
       /\ IF Len(uniqueProducts) > 0
          THEN /\ Len(sent) = Len(messages) + 1
               /\ SystemEntries(sent) = {1, Len(sent)}
               /\ \A k \in 1..Len(uniqueProducts) :
                    Includes(sent[Len(sent)].content,
                             "Product ID: " \o uniqueProducts[k].productId
                               \o ", Name: " \o uniqueProducts[k].name)
          ELSE /\ sent = messages
               /\ SystemEntries(sent) = {1}

\* the second completion was requested after searches that found two
\* products
C32_Witness ==
  /\ SecondRequested
  /\ Len(DedupById(allProducts)) = 2

-----------------------------------------------------------------------------
(* What an orchestration leaves in the store (checked under Spec)           *)

\* C33: an orchestration never changes the agent or the session, and never
\* changes or removes a turn stored before; all it does to the store is add
\* at most one turn, of its session
C33_StoreFrame ==
  /\ [](/\ Len(turns) \in {Len(InitialTurns), Len(InitialTurns) + 1}
        /\ SubSeq(turns, 1, Len(InitialTurns)) = InitialTurns)
  /\ [][/\ agentPrompt' = agentPrompt
         /\ session' = session
         /\ \/ turns' = turns
            \/ /\ Len(turns') = Len(turns) + 1
               /\ SubSeq(turns', 1, Len(turns)) = turns
               /\ turns'[Len(turns')].sessionId = sessionId]_vars

\* an orchestration has returned after reading an agent and a table of three
\* turns, and the table has four
C33_Witness ==
  /\ pc = "returned"
  /\ agentPrompt # NULL
  /\ Len(InitialTurns) = 3
  /\ Len(turns) = 4

-----------------------------------------------------------------------------
(* Termination (checked under SpecLive)                                     *)

\* the stages of a request, in the order of the code
Stage(at) ==
  CASE at = "request" -> 0
    [] at = "agent" -> 1
    [] at = "history" -> 2
    [] at = "first" -> 3
    [] at = "tool" -> 4
    [] at \in {"retry", "second"} -> 5
    [] at = "create" -> 6
    [] at \in {"returned", "threw", "rejected"} -> 7

\* C34: when every call and every backoff wait settles, an orchestration
\* ends: it returns a response whose turn is stored, or it throws an error.
\* For one tool call the search is attempted at most maxRetries times, and
\* no step goes back to an earlier stage or to an earlier tool call.
C34_Terminates ==
  /\ (pc = "agent") ~>
       \/ pc = "returned" /\ response # None /\ Len(turns) = Len(InitialTurns) + 1
       \/ pc = "threw" /\ thrown # None /\ turns = InitialTurns
  /\ [](fnCalls <= maxRetries)
  /\ [][/\ Stage(pc') >= Stage(pc)
         /\ tcIdx' >= tcIdx
         /\ Stage(pc) = 7 => pc' = pc]_vars

\* an orchestration has returned after a search that failed maxRetries times
\* and another that was answered at once
C34_Witness ==
  /\ pc = "returned"
  /\ faults = maxRetries
  /\ nSettledTools = 2
  /\ nEmbedding = maxRetries + 1

-----------------------------------------------------------------------------
(* The product list returned (checked under Spec)                           *)

\* no two records of a product list have the same productId
UniqueIds(ps) ==
  \A i, j \in 1..Len(ps) : ps[i].productId = ps[j].productId => i = j

\* C35: the product list an orchestration returns, on whichever path, never
\* has two records with the same productId
C35_ReturnedIdsUnique ==
  pc = "returned" => UniqueIds(response[1].products)

\* the productIds of a product list, in its order
IdsOf(ps) == [k \in 1..Len(ps) |-> ps[k].productId]

\* C36: on the tool path, when the deduplicated accumulated list is not
\* empty, the list returned has the productIds of that list, in the same
\* order: the text of the second completion adds, removes and moves no record
C36_ReconcileKeepsIds ==
  (FirstRequestsTools /\ pc = "returned" /\ Len(DedupById(allProducts)) > 0) =>
    IdsOf(response[1].products) = IdsOf(DedupById(allProducts))

\* an orchestration has returned the one product its searches found, and
\* the text of its second completion describes that product and another
C36_Witness ==
  /\ FirstRequestsTools
  /\ pc = "returned"
  /\ IdsOf(DedupById(allProducts)) = <<"42">>
  /\ IdsOf(extractProductsFromAssistantMessage(responses[2].content)) = <<"42", "7">>
  /\ IdsOf(response[1].products) = <<"42">>

\* the forced path has returned after a completion with a text
ForcedAnswered ==
  /\ ForcedCase
  /\ pc = "returned"
  /\ Len(responses) = 2
  /\ responses[2].kind = "message"
  /\ Truthy(responses[2].content)

\* C37: on the forced path, when the completion that follows the search has
\* a text, the list returned is the product list executeToolCall returned
\* for the synthetic call, as it is: the text is not parsed for products
\* and no record is changed, so a placeholder stays and an empty list stays
\* empty whatever the text says
C37_ForcedReturnsToolProducts ==
  ForcedAnswered => response[1].products = ValueOf(execResult[1]).products

\* the forced path has returned a record with a placeholder name although
\* the text of the completion names that product
C37_Witness ==
  /\ ForcedAnswered
  /\ \E k \in 1..Len(response[1].products) :
       /\ IsPlaceholderName(response[1].products[k])
       /\ \E ap \in {extractProductsFromAssistantMessage(responses[2].content)} :
            \E j \in 1..Len(ap) :
              /\ ap[j].productId = response[1].products[k].productId
              /\ ~IsPlaceholderName(ap[j])

-----------------------------------------------------------------------------
(* The history of requests served at the same time (checked under SpecConc) *)

\* the turn of p is stored before the turn of q
StoredBefore(p, q) ==
  \E i, j \in 1..Len(turns) :
    i < j /\ turns[i] = OwnTurn(p) /\ turns[j] = OwnTurn(q)

-----------------------------------------------------------------------------
(* The number of invocations of withRetry (checked under SpecRetry)         *)

\* C39: withRetry with maxRetries = 0 never invokes the operation and fails
\* with the error 'Failed after retries'; with maxRetries >= 1 it invokes
\* the operation at least once and at most maxRetries times
C39_InvocationsWithinMaxRetries ==
  /\ maxRetries = 0 =>
       /\ fnCalls = 0
       /\ retryResult # None => retryResult = Some(Rejected(Err("Failed after retries")))
  /\ maxRetries >= 1 =>
       /\ fnCalls <= maxRetries
       /\ retryResult # None => fnCalls >= 1

\* withRetry has failed without an invocation
C39_Witness ==
  /\ maxRetries = 0
  /\ rpc = "threw"
  /\ retryResult # None
  /\ fnCalls = 0

====
